---- MODULE Spec2Model ----
(***************************************************************************)
(* Model of the client-side caching layer of Reviewly:                     *)
(*   - RepoCacheService   (src/src/services/repoCache.ts)                  *)
(*   - AICacheService     (src/unnamed/part_007)                           *)
(*   - PRStatusService    (src/src/services/prStatusService.ts)            *)
(*   - GitHubService      (src/src/services/github.ts, second class body)  *)
(*   - loadAllPullRequests (src/src/ReviewlyApp.tsx)                       *)
(* Time is Date.now() counted in minutes.  localStorage is a function from *)
(* keys to stored strings; a key is a sequence of tokens, so that          *)
(* startsWith and the composition of keys from identities are computed as  *)
(* the code computes them.                                                 *)
(***************************************************************************)
EXTENDS Integers, Sequences, FiniteSets, TLC

VARIABLES
    now,        \* Date.now(), in minutes
    ls,         \* localStorage: key -> stored string
    last,       \* the last operation that ran, with what it returned
    aiCache,    \* AICacheService.cache, the in-memory copy of each tab
    tasks,      \* the async calls of GitHubService in flight
    ui,         \* ReviewlyApp state: allPullRequests, rateLimitError
    svc         \* the service this behaviour exercises

vars == <<now, ls, last, aiCache, tasks, ui, svc>>

----------------------------------------------------------------------------
(* Bounds of the model *)

MaxNow == 11
MaxEntries == 2
MaxNowAI == 1500
MaxAIEntries == 2
MaxQuota == 1
MaxNowStatus == 10081

----------------------------------------------------------------------------
(* JavaScript values *)

Null == [null |-> TRUE]
Undefined == "undefined"
Some(v) == [val |-> v]

\* JSON.stringify of a cache entry: a property whose value is undefined is
\* dropped (etag is the only property of an entry that can be undefined).
Stringify(obj) ==
    [json |-> TRUE,
     val |-> [f \in {g \in DOMAIN obj : ~(g = "etag" /\ obj[g] = Undefined)} |-> obj[f]]]

\* JSON.stringify of an object used as a map (AI cache, triage statuses).
StringifyMap(map) == [json |-> TRUE, val |-> map]

\* A stored string that is not valid JSON.
Garbage == [json |-> FALSE]

\* The stored string '': not valid JSON either, and falsy.
EmptyString == [json |-> FALSE, empty |-> TRUE]

\* !item for what getItem returned: null or ''.
Falsy(item) == item = Null \/ item = EmptyString

\* JSON.parse succeeds on what JSON.stringify wrote and throws on Garbage.
ParseThrows(str) == ~str.json
Parse(str) == str.val

\* obj.f in JavaScript: undefined when the property is missing.
Prop(obj, f) == IF f \in DOMAIN obj THEN obj[f] ELSE Undefined

----------------------------------------------------------------------------
(* localStorage *)

getItem(store, key) == IF key \in DOMAIN store THEN store[key] ELSE Null
setItem(store, key, value) == (key :> value) @@ store
removeItem(store, key) == [k \in DOMAIN store \ {key} |-> store[k]]

\* The handlers below take F, the set of the storage calls ("getItem",
\* "setItem", "removeItem") that throw while the handler runs.

startsWith(key, prefix) ==
    /\ Len(key) >= Len(prefix)
    /\ SubSeq(key, 1, Len(prefix)) = prefix

----------------------------------------------------------------------------
(* RepoCacheService *)

CACHE_DURATION == 5
PR_CACHE_DURATION == 2
ALL_PR_CACHE_DURATION == 5
FILE_CACHE_DURATION == 10
USER_REPOS_CACHE_DURATION == 10

RepoKey(owner, repo) == <<"repo", "_">> \o owner \o <<"_">> \o repo
PRsKey(owner, repo) == <<"prs", "_">> \o owner \o <<"_">> \o repo
FileKey(owner, repo, path, sha) ==
    <<"file", "_">> \o owner \o <<"_">> \o repo \o <<"_">> \o path \o <<"_">> \o sha
UserReposKey(username) == <<"user", "_", "repos", "_">> \o username

ALL == <<"_", "all", "_">>
ALL_PRS_KEY == <<"all", "_", "prs", "_", "awaiting", "_", "review">>

\* The result of a handler: the storage it leaves, what it returns, whether
\* it threw to its caller, how many times it called localStorage.setItem,
\* whether it logged a caught failure (console.warn / console.error), and the
\* storage calls that threw while it ran.  evicted: it removed the entry it
\* was asked for because the entry had expired.
Result(store, ret, threw, writes, warned, hit) ==
    [ls |-> store, ret |-> ret, threw |-> threw, writes |-> writes, warned |-> warned,
     hit |-> hit, evicted |-> FALSE]

\* tryStore with the bug of keeping an entry that is already there.
tryStoreKeepsOld(store, F, key, cached) ==
    IF "setItem" \in F THEN Result(store, Null, FALSE, 1, TRUE, {"setItem"})
    ELSE IF key \in DOMAIN store THEN Result(store, Null, FALSE, 1, FALSE, {})
    ELSE Result(setItem(store, key, Stringify(cached)), Null, FALSE, 1, FALSE, {})

\* tryStore with the bug of merging into the entry that is already there:
\* a property the new entry lacks keeps its old value.
tryStoreMerges(store, F, key, cached) ==
    IF "setItem" \in F THEN Result(store, Null, FALSE, 1, TRUE, {"setItem"})
    ELSE LET new == Stringify(cached).val
             old == IF key \in DOMAIN store /\ ~ParseThrows(store[key])
                        THEN Parse(store[key]) ELSE new
         IN  Result(setItem(store, key,
                        [json |-> TRUE,
                         val |-> [f \in DOMAIN old \cup DOMAIN new |->
                                     IF f \in DOMAIN new THEN new[f] ELSE old[f]]]),
                    Null, FALSE, 1, FALSE, {})

\* try { localStorage.setItem(key, JSON.stringify(cached)) } catch { warn }
tryStore(store, F, key, cached) ==
    IF "setItem" \in F
        THEN Result(store, Null, FALSE, 1, TRUE, {"setItem"})
        ELSE Result(setItem(store, key, Stringify(cached)), Null, FALSE, 1, FALSE, {})

cacheRepository(store, t, F, owner, repo, data, etag) ==
    tryStore(store, F, RepoKey(owner, repo),
             [data |-> data, timestamp |-> t, etag |-> etag])

cachePullRequests(store, t, F, owner, repo, data, etag) ==
    tryStore(store, F, PRsKey(owner, repo),
             [data |-> data, timestamp |-> t, etag |-> etag])

cacheFileContent(store, t, F, owner, repo, path, sha, content) ==
    tryStore(store, F, FileKey(owner, repo, path, sha),
             [content |-> content, timestamp |-> t])

cacheUserRepos(store, t, F, username, data, etag) ==
    tryStore(store, F, UserReposKey(username),
             [data |-> data, timestamp |-> t, etag |-> etag])

\* readCached with the bug of comparing the age with twice the TTL.
readCachedLate(store, t, F, key, maxAge) ==
    IF "getItem" \in F THEN Result(store, Null, FALSE, 0, TRUE, {"getItem"})
    ELSE IF Falsy(getItem(store, key)) THEN Result(store, Null, FALSE, 0, FALSE, {})
    ELSE IF ParseThrows(getItem(store, key)) THEN Result(store, Null, FALSE, 0, TRUE, {})
    ELSE IF t - Parse(getItem(store, key)).timestamp > 2 * maxAge
        THEN [Result(removeItem(store, key), Null, FALSE, 0, FALSE, {})
                EXCEPT !.evicted = TRUE]
    ELSE Result(store, Some(Parse(getItem(store, key))), FALSE, 0, FALSE, {})

\* readCached with the bug of leaving the expired entry in the storage.
readCachedKeepsExpired(store, t, F, key, maxAge) ==
    IF "getItem" \in F THEN Result(store, Null, FALSE, 0, TRUE, {"getItem"})
    ELSE IF Falsy(getItem(store, key)) THEN Result(store, Null, FALSE, 0, FALSE, {})
    ELSE IF ParseThrows(getItem(store, key)) THEN Result(store, Null, FALSE, 0, TRUE, {})
    ELSE IF t - Parse(getItem(store, key)).timestamp > maxAge
        THEN [Result(store, Null, FALSE, 0, FALSE, {}) EXCEPT !.evicted = TRUE]
    ELSE Result(store, Some(Parse(getItem(store, key))), FALSE, 0, FALSE, {})

\* The body shared by the four getCached* methods: getItem, JSON.parse, the
\* age test with removeItem, all inside one try whose catch warns and returns
\* null.  On a hit it yields the parsed entry.
readCached(store, t, F, key, maxAge) ==
    IF "getItem" \in F THEN Result(store, Null, FALSE, 0, TRUE, {"getItem"})
    ELSE IF Falsy(getItem(store, key)) THEN Result(store, Null, FALSE, 0, FALSE, {})
    ELSE IF ParseThrows(getItem(store, key)) THEN Result(store, Null, FALSE, 0, TRUE, {})
    ELSE LET parsed == Parse(getItem(store, key)) IN
         IF t - parsed.timestamp > maxAge
             THEN IF "removeItem" \in F
                      THEN Result(store, Null, FALSE, 0, TRUE, {"removeItem"})
                      ELSE [Result(removeItem(store, key), Null, FALSE, 0, FALSE, {})
                                EXCEPT !.evicted = TRUE]
             ELSE Result(store, Some(parsed), FALSE, 0, FALSE, {})

getCachedRepository(store, t, F, owner, repo) ==
    readCached(store, t, F, RepoKey(owner, repo), CACHE_DURATION)

\* owner === '_all_' ? 5 * 60 * 1000 : this.PR_CACHE_DURATION
prCacheDuration(owner) ==
    IF owner = ALL THEN ALL_PR_CACHE_DURATION ELSE PR_CACHE_DURATION

getCachedPullRequests(store, t, F, owner, repo) ==
    readCached(store, t, F, PRsKey(owner, repo), prCacheDuration(owner))

\* return parsed.content
getCachedFileContent(store, t, F, owner, repo, path, sha) ==
    LET r == readCached(store, t, F, FileKey(owner, repo, path, sha),
                        FILE_CACHE_DURATION)
    IN  IF r.ret = Null THEN r
        ELSE [r EXCEPT !.ret = Some(Prop(r.ret.val, "content"))]

\* return { data: parsed.data, etag: parsed.etag }
getCachedUserRepos(store, t, F, username) ==
    LET r == readCached(store, t, F, UserReposKey(username),
                        USER_REPOS_CACHE_DURATION)
    IN  IF r.ret = Null THEN r
        ELSE [r EXCEPT !.ret = Some([data |-> Prop(r.ret.val, "data"),
                                     etag |-> Prop(r.ret.val, "etag")])]

\* key.startsWith('repo_') || 'prs_' || 'file_' || 'user_repos_'
isCacheKey(key) ==
    \/ startsWith(key, <<"repo", "_">>)
    \/ startsWith(key, <<"prs", "_">>)
    \/ startsWith(key, <<"file", "_">>)
    \/ startsWith(key, <<"user", "_", "repos", "_">>)

\* The maxAge clearExpired and getStats derive from the prefix of a key.
sweepMaxAge(key) ==
    IF startsWith(key, <<"prs", "_">>) THEN PR_CACHE_DURATION
    ELSE IF startsWith(key, <<"file", "_">>)
            \/ startsWith(key, <<"user", "_", "repos", "_">>)
        THEN FILE_CACHE_DURATION
    ELSE CACHE_DURATION

\* Whether the sweep finds the entry under key too old (now - timestamp > maxAge).
sweepExpired(store, t, key) ==
    /\ ~ParseThrows(store[key])
    /\ t - Parse(store[key]).timestamp > sweepMaxAge(key)

\* clearAll with the bug of emptying the whole localStorage.
clearAllClears(store, F) ==
    IF DOMAIN store = {} THEN Result(store, Null, FALSE, 0, FALSE, {})
    ELSE IF "removeItem" \in F THEN Result(store, Null, FALSE, 0, TRUE, {"removeItem"})
    ELSE Result(<<>>, Null, FALSE, 0, FALSE, {})

\* clearAll: removeItem for every cache key; a throw ends the loop in the
\* outer catch.
clearAll(store, F) ==
    IF {k \in DOMAIN store : isCacheKey(k)} = {} THEN Result(store, Null, FALSE, 0, FALSE, {})
    ELSE IF "removeItem" \in F THEN Result(store, Null, FALSE, 0, TRUE, {"removeItem"})
    ELSE Result([k \in {x \in DOMAIN store : ~isCacheKey(x)} |-> store[k]],
                Null, FALSE, 0, FALSE, {})

\* The keys one run of clearExpired removes when removeItem works: the inner
\* catch removes the key when getItem or JSON.parse throws.  It parses
\* getItem(key) || '{}', so a stored '' reads as an object without timestamp
\* and is kept.
sweepVictims(store, t, F) ==
    {k \in DOMAIN store :
        /\ isCacheKey(k)
        /\ \/ "getItem" \in F
           \/ ParseThrows(store[k]) /\ store[k] # EmptyString
           \/ sweepExpired(store, t, k)}

\* clearExpired with the bug of sweeping the repo_ keys only.
clearExpiredReposOnly(store, t, F) ==
    LET victims == {k \in sweepVictims(store, t, F) : startsWith(k, <<"repo", "_">>)} IN
    IF victims = {} THEN Result(store, Null, FALSE, 0, FALSE, {})
    ELSE IF "removeItem" \in F
        THEN Result(store, Null, FALSE, 0, TRUE, F \cap {"getItem", "removeItem"})
    ELSE Result([k \in DOMAIN store \ victims |-> store[k]],
                Null, FALSE, 0, FALSE, F \cap {"getItem"})

\* clearExpired: when removeItem throws, the first removal ends the loop in the
\* outer catch and nothing has been removed.
clearExpired(store, t, F) ==
    IF sweepVictims(store, t, F) = {} THEN Result(store, Null, FALSE, 0, FALSE, {})
    ELSE IF "removeItem" \in F
        THEN Result(store, Null, FALSE, 0, TRUE, F \cap {"getItem", "removeItem"})
    ELSE Result([k \in DOMAIN store \ sweepVictims(store, t, F) |-> store[k]],
                Null, FALSE, 0, FALSE, F \cap {"getItem"})

\* getStats: getItem is called outside the inner try, so a throwing getItem
\* ends the loop right after the first totalEntries++.
getStats(store, t, F) ==
    LET cacheKeys == {k \in DOMAIN store : isCacheKey(k)} IN
    IF cacheKeys # {} /\ "getItem" \in F
        THEN Result(store, Some([totalEntries |-> 1, expiredEntries |-> 0]),
                    FALSE, 0, TRUE, {"getItem"})
        ELSE Result(store,
                    Some([totalEntries |-> Cardinality(cacheKeys),
                          expiredEntries |->
                              Cardinality({k \in cacheKeys :
                                  ParseThrows(store[k]) \/ sweepExpired(store, t, k)})]),
                    FALSE, 0, FALSE, {})

----------------------------------------------------------------------------
(* AICacheService: one instance (one in-memory cache) per tab *)

AI_STORAGE_KEY == <<"reviewly", "_", "ai", "_", "cache">>
defaultTTL == 1440

\* The ttl argument left out.
NoTtl == -1

\* `pr_${prId}_${commitSha || 'latest'}`; the empty sequence stands for a
\* commitSha that is undefined or ''.
generateKey(prId, commitSha) ==
    <<"pr", "_", ToString(prId), "_">>
        \o (IF commitSha = <<>> THEN <<"latest">> ELSE commitSha)

\* The state an AICacheService method works on: this.cache, localStorage, the
\* setItem calls made so far and whether a failure was logged.
AIState(cache, store) ==
    [cache |-> cache, ls |-> store, writes |-> 0, warned |-> FALSE, hit |-> {}]

\* localStorage.setItem of the blob throws when setItem is broken or the blob
\* holds more entries than the quota leaves room for.
aiSetItemThrows(cache, F, quota) ==
    "setItem" \in F \/ Cardinality(DOMAIN cache) > quota

aiUnexpired(cache, t) == {k \in DOMAIN cache : ~(t > cache[k].expiresAt)}

RECURSIVE saveToStorage(_, _, _, _)
RECURSIVE cleanExpired(_, _, _, _)

\* try { setItem } catch { warn; this.cleanExpired(); try { setItem } catch { error } }
saveToStorage(S, t, F, quota) ==
    IF ~aiSetItemThrows(S.cache, F, quota)
        THEN [S EXCEPT !.ls = setItem(S.ls, AI_STORAGE_KEY, StringifyMap(S.cache)),
                       !.writes = @ + 1]
        ELSE LET S1 == cleanExpired([S EXCEPT !.writes = @ + 1, !.warned = TRUE,
                                              !.hit = @ \cup {"setItem"}],
                                    t, F, quota)
             IN  IF ~aiSetItemThrows(S1.cache, F, quota)
                     THEN [S1 EXCEPT !.ls = setItem(S1.ls, AI_STORAGE_KEY,
                                                    StringifyMap(S1.cache)),
                                     !.writes = @ + 1]
                     ELSE [S1 EXCEPT !.writes = @ + 1]

\* cleanExpired with the bug of deleting one expired entry in each call.
cleanExpiredOneByOne(S, t, F, quota) ==
    IF aiUnexpired(S.cache, t) # DOMAIN S.cache
        THEN LET gone == CHOOSE k \in DOMAIN S.cache : k \notin aiUnexpired(S.cache, t)
             IN  saveToStorage(
                     [S EXCEPT !.cache = [k \in DOMAIN S.cache \ {gone} |-> S.cache[k]]],
                     t, F, quota)
        ELSE S

\* delete every entry with now > expiresAt; if (cleaned) this.saveToStorage()
cleanExpired(S, t, F, quota) ==
    IF aiUnexpired(S.cache, t) # DOMAIN S.cache
        THEN saveToStorage(
                 [S EXCEPT !.cache = [k \in aiUnexpired(S.cache, t) |-> S.cache[k]]],
                 t, F, quota)
        ELSE S

\* try { stored = getItem; if (stored) cache = JSON.parse(stored) } catch { cache = {} }
loadFromStorage(S, F) ==
    IF "getItem" \in F
        THEN [S EXCEPT !.cache = <<>>, !.warned = TRUE, !.hit = @ \cup {"getItem"}]
    ELSE IF Falsy(getItem(S.ls, AI_STORAGE_KEY)) THEN S
    ELSE IF ParseThrows(getItem(S.ls, AI_STORAGE_KEY))
        THEN [S EXCEPT !.cache = <<>>, !.warned = TRUE]
    ELSE [S EXCEPT !.cache = Parse(getItem(S.ls, AI_STORAGE_KEY))]

\* constructor: this.cache = {}; loadFromStorage(); cleanExpired()
aiConstructor(store, t, F, quota) ==
    cleanExpired(loadFromStorage(AIState(<<>>, store), F), t, F, quota)

\* expiresAt = now + (ttl || this.defaultTTL)
aiExpiresAt(t, ttl) == t + (IF ttl = NoTtl \/ ttl = 0 THEN defaultTTL ELSE ttl)

aiSet(cache, store, t, F, quota, prId, data, commitSha, ttl) ==
    saveToStorage(
        AIState((generateKey(prId, commitSha) :>
                    [data |-> data, timestamp |-> t, expiresAt |-> aiExpiresAt(t, ttl)])
                @@ cache, store),
        t, F, quota)

\* aiGet with the bug of expiring an entry at expiresAt (>= instead of >).
aiGetEarly(cache, store, t, F, quota, prId, commitSha) ==
    LET key == generateKey(prId, commitSha) IN
    IF key \notin DOMAIN cache
        THEN [st |-> AIState(cache, store), ret |-> Null, evicted |-> FALSE]
    ELSE IF t >= cache[key].expiresAt
        THEN [st |-> saveToStorage(
                         AIState([k \in DOMAIN cache \ {key} |-> cache[k]], store),
                         t, F, quota),
              ret |-> Null, evicted |-> TRUE]
    ELSE [st |-> AIState(cache, store), ret |-> Some(cache[key].data),
          evicted |-> FALSE]

\* The result of get: the state it leaves and the value it returns.
aiGet(cache, store, t, F, quota, prId, commitSha) ==
    LET key == generateKey(prId, commitSha) IN
    IF key \notin DOMAIN cache
        THEN [st |-> AIState(cache, store), ret |-> Null, evicted |-> FALSE]
    ELSE IF t > cache[key].expiresAt
        THEN [st |-> saveToStorage(
                         AIState([k \in DOMAIN cache \ {key} |-> cache[k]], store),
                         t, F, quota),
              ret |-> Null, evicted |-> TRUE]
    ELSE [st |-> AIState(cache, store), ret |-> Some(cache[key].data),
          evicted |-> FALSE]

aiRemove(cache, store, t, F, quota, prId, commitSha) ==
    saveToStorage(
        AIState([k \in DOMAIN cache \ {generateKey(prId, commitSha)} |-> cache[k]],
                store),
        t, F, quota)

aiClear(store, t, F, quota) == saveToStorage(AIState(<<>>, store), t, F, quota)

----------------------------------------------------------------------------
(* PRStatusService *)

STATUS_STORAGE_KEY == <<"reviewly", "_", "pr", "_", "statuses">>
STATUS_CACHE_DURATION == 10080

PrIds == {41, 42}

\* Number(id) of a property name written by id.toString()
NumberOf(str) == CHOOSE n \in PrIds : ToString(n) = str

\* getAllStatuses with the bug of keeping a record that is exactly 7 days old.
getAllStatusesLate(store, t, F) ==
    IF "getItem" \in F THEN [map |-> <<>>, warned |-> TRUE, hit |-> {"getItem"}]
    ELSE IF Falsy(getItem(store, STATUS_STORAGE_KEY))
        THEN [map |-> <<>>, warned |-> FALSE, hit |-> {}]
    ELSE IF ParseThrows(getItem(store, STATUS_STORAGE_KEY))
        THEN [map |-> <<>>, warned |-> TRUE, hit |-> {}]
    ELSE LET data == Parse(getItem(store, STATUS_STORAGE_KEY))
             live == {id \in DOMAIN data : t - data[id].timestamp <= STATUS_CACHE_DURATION}
         IN  [map |-> [n \in {NumberOf(id) : id \in live} |-> data[ToString(n)]],
              warned |-> FALSE, hit |-> {}]

\* getAllStatuses: the Map of the unexpired statuses; an empty Map when the
\* key is missing or when getItem or JSON.parse throws (caught, warned).
getAllStatuses(store, t, F) ==
    IF "getItem" \in F THEN [map |-> <<>>, warned |-> TRUE, hit |-> {"getItem"}]
    ELSE IF Falsy(getItem(store, STATUS_STORAGE_KEY))
        THEN [map |-> <<>>, warned |-> FALSE, hit |-> {}]
    ELSE IF ParseThrows(getItem(store, STATUS_STORAGE_KEY))
        THEN [map |-> <<>>, warned |-> TRUE, hit |-> {}]
    ELSE LET data == Parse(getItem(store, STATUS_STORAGE_KEY))
             live == {id \in DOMAIN data : t - data[id].timestamp < STATUS_CACHE_DURATION}
         IN  [map |-> [n \in {NumberOf(id) : id \in live} |-> data[ToString(n)]],
              warned |-> FALSE, hit |-> {}]

\* saveAllStatuses with the change of merging the map into the blob that is
\* stored at the time of the write (the records of the map win).
saveAllStatusesMerges(store, F, statusMap) ==
    IF "setItem" \in F
        THEN Result(store, Null, FALSE, 1, TRUE, {"setItem"})
        ELSE Result(setItem(store, STATUS_STORAGE_KEY,
                        StringifyMap(
                            [id \in {ToString(n) : n \in DOMAIN statusMap} |->
                                statusMap[NumberOf(id)]]
                            @@ (IF STATUS_STORAGE_KEY \in DOMAIN store
                                    /\ ~ParseThrows(store[STATUS_STORAGE_KEY])
                                THEN Parse(store[STATUS_STORAGE_KEY]) ELSE <<>>))),
                    Null, FALSE, 1, FALSE, {})

\* saveAllStatuses: data[id.toString()] = status; try { setItem } catch { warn }
saveAllStatuses(store, F, statusMap) ==
    IF "setItem" \in F
        THEN Result(store, Null, FALSE, 1, TRUE, {"setItem"})
        ELSE Result(setItem(store, STATUS_STORAGE_KEY,
                            StringifyMap([id \in {ToString(n) : n \in DOMAIN statusMap}
                                             |-> statusMap[NumberOf(id)]])),
                    Null, FALSE, 1, FALSE, {})

\* mergeStatus with the bug of flipping a flag that is updated.
mergeStatusToggles(existing, updates, t) ==
    [f \in DOMAIN existing |->
        IF f = "timestamp" THEN t
        ELSE IF f \in DOMAIN updates THEN existing[f] # updates[f]
        ELSE existing[f]]

\* mergeStatus with the bug of never clearing a flag that is set.
mergeStatusSticky(existing, updates, t) ==
    [f \in DOMAIN existing |->
        IF f = "timestamp" THEN t
        ELSE IF f \in DOMAIN updates THEN existing[f] \/ updates[f]
        ELSE existing[f]]

\* mergeStatus with the bug of keeping the flags exclusive: an update
\* clears the flags it does not name.
mergeStatusExclusive(existing, updates, t) ==
    [f \in DOMAIN existing |->
        IF f = "timestamp" THEN t
        ELSE IF f \in DOMAIN updates THEN updates[f]
        ELSE IF f = "id" THEN existing[f]
        ELSE FALSE]

\* { ...existing, ...updates, timestamp: Date.now() }
mergeStatus(existing, updates, t) ==
    [f \in DOMAIN existing |->
        IF f = "timestamp" THEN t
        ELSE IF f \in DOMAIN updates THEN updates[f]
        ELSE existing[f]]

updateStatus(store, t, F, prId, updates) ==
    LET all == getAllStatuses(store, t, F)
        existing == IF prId \in DOMAIN all.map THEN all.map[prId]
                    ELSE [id |-> prId, spicy |-> FALSE, delayed |-> FALSE,
                          completed |-> FALSE, timestamp |-> t]
        saved == saveAllStatuses(store, F,
                     (prId :> mergeStatus(existing, updates, t)) @@ all.map)
    IN  [saved EXCEPT !.warned = @ \/ all.warned, !.hit = @ \cup all.hit]

setSpicy(store, t, F, prId, isSpicy) ==
    updateStatus(store, t, F, prId, [spicy |-> isSpicy])

setDelayed(store, t, F, prId, isDelayed) ==
    updateStatus(store, t, F, prId, [delayed |-> isDelayed])

setCompleted(store, t, F, prId, isCompleted) ==
    updateStatus(store, t, F, prId, [completed |-> isCompleted])

getStatus(store, t, F, prId) ==
    LET all == getAllStatuses(store, t, F) IN
    Result(store,
           IF prId \in DOMAIN all.map THEN Some(all.map[prId]) ELSE Null,
           FALSE, 0, all.warned, all.hit)

getSpicyPRs(store, t, F) ==
    LET all == getAllStatuses(store, t, F) IN
    Result(store, Some({id \in DOMAIN all.map : all.map[id].spicy}), FALSE, 0, all.warned, all.hit)

getDelayedPRs(store, t, F) ==
    LET all == getAllStatuses(store, t, F) IN
    Result(store, Some({id \in DOMAIN all.map : all.map[id].delayed}), FALSE, 0, all.warned, all.hit)

getCompletedPRs(store, t, F) ==
    LET all == getAllStatuses(store, t, F) IN
    Result(store, Some({id \in DOMAIN all.map : all.map[id].completed}), FALSE, 0, all.warned, all.hit)

\* cleanup: saveAllStatuses(getAllStatuses())
statusCleanup(store, t, F) ==
    LET all == getAllStatuses(store, t, F)
        saved == saveAllStatuses(store, F, all.map)
    IN  [saved EXCEPT !.warned = @ \/ all.warned, !.hit = @ \cup all.hit]

\* clearAll: localStorage.removeItem(STORAGE_KEY), outside any try
statusClearAll(store, F) ==
    IF "removeItem" \in F
        THEN Result(store, Null, TRUE, 0, FALSE, {"removeItem"})
        ELSE Result(removeItem(store, STATUS_STORAGE_KEY), Null, FALSE, 0, FALSE, {})

----------------------------------------------------------------------------
(* The identities and payloads the callers pass *)

Owners == {<<"o">>}
Repos == {<<"r">>}
Paths == {<<"p">>}
Shas == {<<"HEAD">>}
Usernames == {<<"u">>}
PRIdents == {<<o, r>> : o \in Owners, r \in Repos} \cup {<<ALL, ALL_PRS_KEY>>}

\* Payloads with the etag of the response they came from.
RepoInputs == {<<"R1", "e">>}
PRInputs == {<< <<>>, Undefined>>, << <<1>>, "e">>}
RepoListInputs == {<< <<"r">>, Undefined>>}
Contents == {"", "c"}

\* The minutes that pass between two operations.
CacheTicks == {5, 11}

\* The record kept of the last operation.
Op(name, key, arg, r) ==
    [op |-> name, key |-> key, arg |-> arg, ret |-> r.ret, threw |-> r.threw,
     warned |-> r.warned, writes |-> r.writes, hit |-> r.hit, evicted |-> r.evicted,
     tab |-> 0]

NoOp(name) ==
    [op |-> name, key |-> <<>>, arg |-> Null, ret |-> Null, threw |-> FALSE,
     warned |-> FALSE, writes |-> 0, hit |-> {}, evicted |-> FALSE, tab |-> 0]

Fits(store) == Cardinality(DOMAIN store) <= MaxEntries

Tabs == {1}

\* The application starts on an empty localStorage; every tab has constructed
\* its AICacheService (an empty cache).
InitWith(service) ==
    /\ svc = service
    /\ now = 0
    /\ ls = <<>>
    /\ last = NoOp("init")
    /\ aiCache = [tab \in Tabs |-> <<>>]
    /\ tasks = <<>>
    /\ ui = [allPullRequests |-> <<>>, rateLimitError |-> Null]

\* A handler of RepoCacheService ran with result r.
CacheStep(name, key, arg, r) ==
    /\ svc = "cache"
    /\ Fits(r.ls)
    /\ ls' = r.ls
    /\ last' = Op(name, key, arg, r)
    /\ UNCHANGED <<now, aiCache, tasks, ui, svc>>

\* d minutes pass in a behaviour of the service.
Tick(service, d, max) ==
    /\ svc = service
    /\ now + d <= max
    /\ now' = now + d
    /\ last' = NoOp("tick")
    /\ UNCHANGED <<ls, aiCache, tasks, ui, svc>>

CacheRepository ==
    \E o \in Owners, r \in Repos, in \in RepoInputs, F \in SUBSET {"setItem"} :
        CacheStep("cacheRepository", RepoKey(o, r), Some(in[1]),
                  cacheRepository(ls, now, F, o, r, in[1], in[2]))

GetCachedRepository ==
    \E o \in Owners, r \in Repos, F \in SUBSET {"getItem", "removeItem"} :
        CacheStep("getCachedRepository", RepoKey(o, r), Null,
                  getCachedRepository(ls, now, F, o, r))

CachePullRequests ==
    \E id \in PRIdents, in \in PRInputs, F \in SUBSET {"setItem"} :
        CacheStep("cachePullRequests", PRsKey(id[1], id[2]), Some(in[1]),
                  cachePullRequests(ls, now, F, id[1], id[2], in[1], in[2]))

GetCachedPullRequests ==
    \E id \in PRIdents, F \in SUBSET {"getItem", "removeItem"} :
        CacheStep("getCachedPullRequests", PRsKey(id[1], id[2]), Null,
                  getCachedPullRequests(ls, now, F, id[1], id[2]))

CacheFileContent ==
    \E o \in Owners, r \in Repos, p \in Paths, s \in Shas, c \in Contents,
       F \in SUBSET {"setItem"} :
        CacheStep("cacheFileContent", FileKey(o, r, p, s), Some(c),
                  cacheFileContent(ls, now, F, o, r, p, s, c))

GetCachedFileContent ==
    \E o \in Owners, r \in Repos, p \in Paths, s \in Shas,
       F \in SUBSET {"getItem", "removeItem"} :
        CacheStep("getCachedFileContent", FileKey(o, r, p, s), Null,
                  getCachedFileContent(ls, now, F, o, r, p, s))

CacheUserRepos ==
    \E u \in Usernames, in \in RepoListInputs, F \in SUBSET {"setItem"} :
        CacheStep("cacheUserRepos", UserReposKey(u), Some(in[1]),
                  cacheUserRepos(ls, now, F, u, in[1], in[2]))

GetCachedUserRepos ==
    \E u \in Usernames, F \in SUBSET {"getItem", "removeItem"} :
        CacheStep("getCachedUserRepos", UserReposKey(u), Null,
                  getCachedUserRepos(ls, now, F, u))

ClearAll ==
    \E F \in SUBSET {"removeItem"} : CacheStep("clearAll", <<>>, Null, clearAll(ls, F))

ClearExpired ==
    \E F \in SUBSET {"getItem", "removeItem"} :
        CacheStep("clearExpired", <<>>, Null, clearExpired(ls, now, F))

GetStats ==
    \E F \in SUBSET {"getItem"} : CacheStep("getStats", <<>>, Null, getStats(ls, now, F))

\* The keys of the cache namespaces for the identities above.
CacheKeys ==
    {RepoKey(o, r) : o \in Owners, r \in Repos}
        \cup {PRsKey(id[1], id[2]) : id \in PRIdents}
        \cup {FileKey(id[1], id[2], id[3], id[4]) :
                id \in {<<o, r, p, s>> : o \in Owners, r \in Repos, p \in Paths, s \in Shas}}
        \cup {UserReposKey(u) : u \in Usernames}

\* Something other than the cache services writes a string that is not JSON
\* under a key (a manual edit, another script of the origin): garbage under
\* any key, the empty string under a repo_ key.
WriteGarbage ==
    \E k \in CacheKeys :
    \E str \in IF startsWith(k, <<"repo", "_">>) THEN {Garbage, EmptyString}
                                                 ELSE {Garbage} :
        /\ svc = "cache"
        /\ Fits(setItem(ls, k, str))
        /\ ls' = setItem(ls, k, str)
        /\ last' = [NoOp("writeGarbage") EXCEPT !.key = k]
        /\ UNCHANGED <<now, aiCache, tasks, ui, svc>>

NextCache ==
    \/ \E d \in CacheTicks : Tick("cache", d, MaxNow)
    \/ CacheRepository
    \/ GetCachedRepository
    \/ CachePullRequests
    \/ GetCachedPullRequests
    \/ CacheFileContent
    \/ GetCachedFileContent
    \/ CacheUserRepos
    \/ GetCachedUserRepos
    \/ ClearAll
    \/ ClearExpired
    \/ GetStats
    \/ WriteGarbage

----------------------------------------------------------------------------
(* The callers of AICacheService *)

AIPrIds == {101}
AIShas == {<<>>, <<"sha1">>}
\* Reviews with the ttl they are stored with.
AIInputs == {<<"A1", NoTtl>>, <<"A2", 60>>}
AITicks == {690, 750}

\* An AICacheService method of a tab ran and left S, returning ret.
AIStep(tab, name, key, arg, S, ret, evicted) ==
    /\ svc = "ai"
    /\ Cardinality(DOMAIN S.cache) <= MaxAIEntries
    /\ aiCache' = [aiCache EXCEPT ![tab] = S.cache]
    /\ ls' = S.ls
    /\ last' = [op |-> name, key |-> key, arg |-> arg, ret |-> ret, threw |-> FALSE,
                warned |-> S.warned, writes |-> S.writes, hit |-> S.hit,
                evicted |-> evicted, tab |-> tab]
    /\ UNCHANGED <<now, tasks, ui, svc>>

\* The tab is (re)loaded: new AICacheService()
AIConstruct ==
    \E tab \in Tabs, F \in SUBSET {"getItem", "setItem"}, q \in 0..MaxQuota :
        AIStep(tab, "aiConstructor", <<>>, Null, aiConstructor(ls, now, F, q), Null, FALSE)

AISet ==
    \E tab \in Tabs, id \in AIPrIds, sha \in AIShas, in \in AIInputs,
       F \in SUBSET {"setItem"}, q \in 0..MaxQuota :
        AIStep(tab, "aiSet", generateKey(id, sha), Some(in[1]),
               aiSet(aiCache[tab], ls, now, F, q, id, in[1], sha, in[2]), Null, FALSE)

AIGet ==
    \E tab \in Tabs, id \in AIPrIds, sha \in AIShas,
       F \in SUBSET {"setItem"}, q \in 0..MaxQuota :
        LET r == aiGet(aiCache[tab], ls, now, F, q, id, sha) IN
        AIStep(tab, "aiGet", generateKey(id, sha), Null, r.st, r.ret, r.evicted)

AIRemove ==
    \E tab \in Tabs, id \in AIPrIds, sha \in AIShas,
       F \in SUBSET {"setItem"}, q \in 0..MaxQuota :
        AIStep(tab, "aiRemove", generateKey(id, sha), Null,
               aiRemove(aiCache[tab], ls, now, F, q, id, sha), Null, FALSE)

AIClear ==
    \E tab \in Tabs, F \in SUBSET {"setItem"}, q \in 0..MaxQuota :
        AIStep(tab, "aiClear", <<>>, Null, aiClear(ls, now, F, q), Null, FALSE)

NextAI ==
    \/ \E d \in AITicks : Tick("ai", d, MaxNowAI)
    \/ AIConstruct
    \/ AISet
    \/ AIGet
    \/ AIRemove
    \/ AIClear

----------------------------------------------------------------------------
(* The callers of PRStatusService *)

StatusTicks == {10080, 10081}

StatusStep(name, prId, arg, r) ==
    /\ svc = "status"
    /\ ls' = r.ls
    /\ last' = Op(name, <<ToString(prId)>>, arg, r)
    /\ UNCHANGED <<now, aiCache, tasks, ui, svc>>

SetSpicy ==
    \E id \in PrIds, b \in BOOLEAN, F \in SUBSET {"getItem", "setItem"} :
        StatusStep("setSpicy", id, Some(b), setSpicy(ls, now, F, id, b))

SetDelayed ==
    \E id \in PrIds, b \in BOOLEAN, F \in SUBSET {"getItem", "setItem"} :
        StatusStep("setDelayed", id, Some(b), setDelayed(ls, now, F, id, b))

SetCompleted ==
    \E id \in PrIds, b \in BOOLEAN, F \in SUBSET {"getItem", "setItem"} :
        StatusStep("setCompleted", id, Some(b), setCompleted(ls, now, F, id, b))

GetStatus ==
    \E id \in PrIds, F \in SUBSET {"getItem"} :
        StatusStep("getStatus", id, Null, getStatus(ls, now, F, id))

GetSpicyPRs ==
    \E F \in SUBSET {"getItem"} :
        StatusStep("getSpicyPRs", 0, Null, getSpicyPRs(ls, now, F))

GetDelayedPRs ==
    \E F \in SUBSET {"getItem"} :
        StatusStep("getDelayedPRs", 0, Null, getDelayedPRs(ls, now, F))

GetCompletedPRs ==
    \E F \in SUBSET {"getItem"} :
        StatusStep("getCompletedPRs", 0, Null, getCompletedPRs(ls, now, F))

StatusCleanup ==
    \E F \in SUBSET {"getItem", "setItem"} :
        StatusStep("cleanup", 0, Null, statusCleanup(ls, now, F))

StatusClearAll ==
    \E F \in SUBSET {"removeItem"} :
        StatusStep("statusClearAll", 0, Null, statusClearAll(ls, F))

\* Something other than the service writes a string that is not JSON under
\* the key of the triage blob.
StatusGarbage ==
    /\ svc = "status"
    /\ ls' = setItem(ls, STATUS_STORAGE_KEY, Garbage)
    /\ last' = [NoOp("writeGarbage") EXCEPT !.key = STATUS_STORAGE_KEY]
    /\ UNCHANGED <<now, aiCache, tasks, ui, svc>>

NextStatus ==
    \/ \E d \in StatusTicks : Tick("status", d, MaxNowStatus)
    \/ SetSpicy
    \/ SetDelayed
    \/ SetCompleted
    \/ GetStatus
    \/ GetSpicyPRs
    \/ GetDelayedPRs
    \/ GetCompletedPRs
    \/ StatusCleanup
    \/ StatusClearAll
    \/ StatusGarbage

----------------------------------------------------------------------------
(* The three storage services.  They share no key and no state, and their   *)
(* lifetimes differ by orders of magnitude (minutes, a day, a week), so a   *)
(* behaviour exercises one of them, chosen at the start.                    *)

InitStores == \E service \in {"cache", "ai", "status"} : InitWith(service)

NextStores == NextCache \/ NextAI \/ NextStatus

SpecStores == InitStores /\ [][NextStores]_vars

----------------------------------------------------------------------------
(* RepoCacheService with the clock and the timer of repoCache.ts: the       *)
(* module calls setInterval(() => repoCacheService.clearExpired(), 5 min)   *)
(* when it is loaded, at time 0 here.  Entries are written and never read.  *)

MaxNowSweep == 16

\* 5 * 60 * 1000 ms, the period of the setInterval
SWEEP_INTERVAL == 5

\* The minutes that pass between two operations within one period.
SweepTicks == {3}

\* A writer of RepoCacheService ran with result r (setItem does not throw;
\* one payload for each namespace).
SweepStep(name, key, r) ==
    /\ svc = "cache"
    /\ Fits(r.ls)
    /\ ls' = r.ls
    /\ last' = [NoOp(name) EXCEPT !.key = key]
    /\ UNCHANGED <<now, aiCache, tasks, ui, svc>>

SweepCacheRepository ==
    \E o \in Owners, r \in Repos :
        SweepStep("cacheRepository", RepoKey(o, r),
                  cacheRepository(ls, now, {}, o, r, "R1", "e"))

SweepCachePullRequests ==
    \E id \in PRIdents :
        SweepStep("cachePullRequests", PRsKey(id[1], id[2]),
                  cachePullRequests(ls, now, {}, id[1], id[2], <<1>>, "e"))

SweepCacheFileContent ==
    \E o \in Owners, r \in Repos, p \in Paths, sha \in Shas :
        SweepStep("cacheFileContent", FileKey(o, r, p, sha),
                  cacheFileContent(ls, now, {}, o, r, p, sha, "c"))

SweepCacheUserRepos ==
    \E u \in Usernames :
        SweepStep("cacheUserRepos", UserReposKey(u),
                  cacheUserRepos(ls, now, {}, u, <<"r">>, Undefined))

\* Time passes and the interval does not elapse.
PassTime ==
    \E d \in SweepTicks :
        /\ (now % SWEEP_INTERVAL) + d < SWEEP_INTERVAL
        /\ Tick("cache", d, MaxNowSweep)

\* The interval elapses and the callback runs clearExpired.  getItem may
\* throw; removeItem is taken not to (when it throws the sweep removes
\* nothing, see clearExpired).
SweepTimer ==
    LET t == now + SWEEP_INTERVAL - (now % SWEEP_INTERVAL) IN
    /\ svc = "cache"
    /\ t <= MaxNowSweep
    /\ now' = t
    /\ \E F \in SUBSET {"getItem"} :
           LET r == clearExpired(ls, t, F)
           IN  /\ ls' = r.ls
               /\ last' = [NoOp("sweepTimer") EXCEPT
                               !.hit = r.hit,
                               !.arg = [removed |-> DOMAIN ls \ DOMAIN r.ls]]
    /\ UNCHANGED <<aiCache, tasks, ui, svc>>

InitSweep == InitWith("cache")

NextSweep ==
    \/ SweepCacheRepository
    \/ SweepCachePullRequests
    \/ SweepCacheFileContent
    \/ SweepCacheUserRepos
    \/ PassTime
    \/ SweepTimer

\* The clock runs and the timer keeps firing while the app is open.
SpecSweep == InitSweep /\ [][NextSweep]_vars /\ WF_now(SweepTimer)

----------------------------------------------------------------------------
(* GitHubService (the class of github.ts that consults repoCacheService)   *)
(* and ReviewlyApp.loadAllPullRequests.  An async call is a task that      *)
(* stops at every await; each action below resumes one task at one await   *)
(* and runs it to its next await, or to its end.  What the remote API      *)
(* answers is chosen by the environment at each call.                      *)

MaxTasks == 2
MaxNowFetch == 6

\* Date.now() at the start of a behaviour, in minutes since 1970; it matters
\* only where the code subtracts 0 from Date.now().
Epoch == 29000000

\* error.status of an Error that has no status property.
NoStatus == 0

twoMinutes == 2
tenMinutes == 10
fiveMinutes == 5
fifteenMinutes == 15

\* A message is a sequence of fragments, so that String.prototype.includes
\* is computed: phrase occurs in message as consecutive fragments.
includes(message, phrase) ==
    \E k \in 1..(Len(message) - Len(phrase) + 1) :
        SubSeq(message, k, k + Len(phrase) - 1) = phrase

RemoteError(status, message) == [status |-> status, message |-> message]
E401 == RemoteError(401, <<"Bad credentials">>)
E403RateLimit == RemoteError(403, <<"API ", "rate limit", " exceeded", " for user ID 1">>)
E403 == RemoteError(403, <<"Resource not accessible by personal access token">>)
E404 == RemoteError(404, <<"Not Found">>)
E500 == RemoteError(500, <<"Server Error">>)
Errors == {E401, E403RateLimit, E403, E404, E500}

Ok(data) == [ok |-> TRUE, data |-> data]
Fail(error) == [ok |-> FALSE, error |-> error]
\* The answers to a call whose failure ends fetchFreshPRsAwaitingReview, and
\* to a call whose failure it catches and survives.
Responses(datas) == {Ok(d) : d \in datas} \cup {Fail(e) : e \in Errors}
Tolerated(datas) == {Ok(d) : d \in datas} \cup {Fail(e) : e \in {E403RateLimit, E500}}

\* What the remote API can answer.
Login == <<"u">>
SearchResults == {<<>>, <<1>>}
Search2Results == {<<2>>}
RepoLists == {<<>>, <<[owner |-> <<"o">>, name |-> <<"r">>]>>}
PRLists == {<<1>>}
FetchTicks == {3}

\* throw new Error('GitHub rate limit exceeded. ...') in the search catch
RateLimitError ==
    RemoteError(NoStatus, <<"GitHub ", "rate limit", " exceeded",
                            ". Please wait a few minutes before trying again.">>)

\* The message of the Error the outer catch of fetchFreshPRsAwaitingReview
\* throws for the error it caught.
outerCatch(error) ==
    IF error.status = 401
        THEN <<"GitHub ", "authentication failed", ". Please check your access token.">>
    ELSE IF error.status = 403
        THEN <<"Insufficient GitHub permissions or ", "rate limit", " exceeded",
               ". Please check your token permissions.">>
    ELSE IF error.status = 404
        THEN <<"GitHub API endpoint not found. This might be a temporary issue.">>
    ELSE <<"Failed to fetch PRs: ">> \o error.message

\* searchError.status === 403 && searchError.message.includes('rate limit')
searchRateLimited(searchError) ==
    searchError.status = 403 /\ includes(searchError.message, <<"rate limit">>)

\* Date.now() - (cached.timestamp || 0).  A timestamp the model stores is
\* counted from the start of the behaviour; a missing one leaves Date.now().
cacheAge(t, cached) ==
    IF "timestamp" \in DOMAIN cached THEN t - cached.timestamp ELSE Epoch + t

\* `${user.login}_p${page}_pp${perPage}`
reposCacheKey(login, page, perPage) == login \o <<"_p", page, "_pp", perPage>>

\* array.slice(0, n)
slice(array, n) == SubSeq(array, 1, IF Len(array) < n THEN Len(array) ELSE n)

\* allPRs.reduce(...): the first occurrence of every PR, in order
RECURSIVE uniquePRs(_)
uniquePRs(allPRs) ==
    IF allPRs = <<>> THEN <<>>
    ELSE LET acc == uniquePRs(SubSeq(allPRs, 1, Len(allPRs) - 1))
             pr == allPRs[Len(allPRs)]
         IN  IF \E k \in DOMAIN acc : acc[k] = pr THEN acc ELSE Append(acc, pr)

\* getAllPullRequestsAwaitingReview: the cached aggregate list is returned
servedFromCache(cached, t) ==
    /\ cached # Null
    /\ Len(cached.val.data) > 0
    /\ cacheAge(t, cached.val) < tenMinutes

\* ... and fetchAndUpdatePRsInBackground is called
refreshScheduled(cached, t) ==
    servedFromCache(cached, t) /\ cacheAge(t, cached.val) > twoMinutes

\* getRepositories: the cached list is returned.  cached has no timestamp
\* (getCachedUserRepos returns data and etag only).
reposServedFromCache(cached, t) ==
    /\ cached # Null
    /\ Len(cached.val.data) > 0
    /\ cacheAge(t, cached.val) < fifteenMinutes

\* ... and fetchAndUpdateReposInBackground is called
reposRefreshScheduled(cached, t) ==
    reposServedFromCache(cached, t) /\ cacheAge(t, cached.val) > fiveMinutes

\* A call of fetchFreshPRsAwaitingReview in flight.  bg: it was made by
\* fetchAndUpdatePRsInBackground.  pc: the await it stopped at.  items: the
\* search results still to be fetched in detail.  repos: the repositories
\* still to be listed.  prs: pullRequests.  hits: the errors the remote API
\* answered to this call so far.
Task(bg) ==
    [bg |-> bg, pc |-> "getCurrentUser", items |-> <<>>, repos |-> <<>>,
     prs |-> <<>>, hits |-> {}]

Hit(task, error) == [task EXCEPT !.hits = @ \cup {error}]

Remove(seq, i) == SubSeq(seq, 1, i - 1) \o SubSeq(seq, i + 1, Len(seq))

\* Task i stops at its next await.
Continue(i, task, store) ==
    /\ svc = "fetch"
    /\ tasks' = [tasks EXCEPT ![i] = task]
    /\ ls' = store
    /\ last' = NoOp("resume")
    /\ UNCHANGED <<now, aiCache, ui, svc>>

\* Task i ends: fetchFreshPRsAwaitingReview returned val, or threw an Error
\* with message val.  fetchAndUpdatePRsInBackground logs either outcome and
\* returns.  loadAllPullRequests sets the list, and in its catch empties
\* the list and sets the banner when the message includes
\* 'rate limit exceeded'.  last.hit: the storage calls that threw within
\* cachePullRequests.
Settle(i, task, store, rejected, val, writes, hit) ==
    /\ svc = "fetch"
    /\ tasks' = Remove(tasks, i)
    /\ ls' = store
    /\ ui' = IF task.bg THEN ui
             ELSE IF ~rejected THEN [ui EXCEPT !.allPullRequests = val]
             ELSE [allPullRequests |-> <<>>,
                   rateLimitError |->
                       IF includes(val, <<"rate limit", " exceeded">>)
                           THEN Some(val) ELSE ui.rateLimitError]
    /\ last' = [NoOp(IF task.bg THEN "backgroundDone" ELSE "blockingDone") EXCEPT
                    !.key = PRsKey(ALL, ALL_PRS_KEY),
                    !.arg = [hits |-> task.hits, rejected |-> rejected],
                    !.ret = Some(val),
                    !.threw = rejected /\ ~task.bg,
                    !.warned = hit # {},
                    !.writes = writes,
                    !.hit = hit]
    /\ UNCHANGED <<now, aiCache, svc>>

\* The outer catch rethrows.
Throw(i, task, error) == Settle(i, task, ls, TRUE, outerCatch(error), 0, {})

\* repoCacheService.cachePullRequests('_all_', cacheKey, pullRequests); return.
\* setItem may throw (the quota); cachePullRequests catches and warns.
CacheAndReturn(i, task, store) ==
    \E F \in SUBSET {"setItem"} :
        LET r == cachePullRequests(store, now, F, ALL, ALL_PRS_KEY, task.prs, Undefined)
        IN  Settle(i, task, r.ls, FALSE, task.prs, r.writes, r.hit)

\* for (const repo of repos.slice(0, 3)): the next iteration, or the end
NextRepo(i, task, store) ==
    IF task.repos = <<>> THEN CacheAndReturn(i, task, store)
    ELSE Continue(i, [task EXCEPT !.pc = "timer200"], store)

\* for (const pr of uniquePRs.slice(0, 50)): the next iteration, or the end
NextDetail(i, task, store) ==
    IF task.items = <<>> THEN CacheAndReturn(i, task, store)
    ELSE Continue(i, [task EXCEPT !.pc = "pulls.get"], store)

\* loadAllPullRequests up to its await, getAllPullRequestsAwaitingReview
\* within it: the cached list is returned (and shown), with a background
\* refresh when it is older than two minutes; without it the call of
\* fetchFreshPRsAwaitingReview is awaited.
LoadAllPullRequests ==
    /\ svc = "fetch"
    /\ LET c == getCachedPullRequests(ls, now, {}, ALL, ALL_PRS_KEY)
           served == servedFromCache(c.ret, now)
           spawned == IF ~served THEN <<Task(FALSE)>>
                      ELSE IF refreshScheduled(c.ret, now) THEN <<Task(TRUE)>>
                      ELSE <<>>
       IN  /\ Len(tasks) + Len(spawned) <= MaxTasks
           /\ tasks' = tasks \o spawned
           /\ ls' = c.ls
           /\ ui' = [allPullRequests |-> IF served THEN c.ret.val.data
                                         ELSE ui.allPullRequests,
                     rateLimitError |-> Null]
           /\ last' = [NoOp("loadAllPullRequests") EXCEPT
                           !.key = PRsKey(ALL, ALL_PRS_KEY),
                           !.arg = [spawned |-> spawned],
                           !.ret = IF served THEN Some(c.ret.val.data) ELSE Null,
                           !.evicted = c.evicted]
    /\ UNCHANGED <<now, aiCache, svc>>

\* const user = await this.getCurrentUser()
GetCurrentUserDone ==
    \E i \in DOMAIN tasks, resp \in Responses({Login}) :
        /\ tasks[i].pc = "getCurrentUser"
        /\ IF resp.ok THEN Continue(i, [tasks[i] EXCEPT !.pc = "timer100"], ls)
           ELSE Throw(i, Hit(tasks[i], resp.error), resp.error)

\* await new Promise(resolve => setTimeout(resolve, 100))
Timer100Done ==
    \E i \in DOMAIN tasks :
        /\ tasks[i].pc = "timer100"
        /\ Continue(i, [tasks[i] EXCEPT !.pc = "search"], ls)

\* After the first search: without items the repositories are fetched
\* (getRepositories awaits getCurrentUser); with fewer than 10 the second
\* search is awaited after 300 ms.
AfterSearch(i, task) ==
    IF Len(task.items) = 0
        THEN Continue(i, [task EXCEPT !.pc = "getRepositories.getCurrentUser"], ls)
    ELSE IF Len(task.items) < 10
        THEN Continue(i, [task EXCEPT !.pc = "timer300"], ls)
    ELSE NextDetail(i, [task EXCEPT !.items = slice(uniquePRs(@), 50)], ls)

\* await search.issuesAndPullRequests (review-requested:@me), with its catch
SearchDone ==
    \E i \in DOMAIN tasks, resp \in Tolerated(SearchResults) :
        /\ tasks[i].pc = "search"
        /\ IF resp.ok THEN AfterSearch(i, [tasks[i] EXCEPT !.items = resp.data])
           ELSE IF searchRateLimited(resp.error)
               THEN Throw(i, Hit(tasks[i], resp.error), RateLimitError)
           ELSE AfterSearch(i, Hit(tasks[i], resp.error))

\* getRepositories(1, 10) after its await of getCurrentUser: the cache is
\* consulted, and without a list to serve repos.listForAuthenticatedUser is
\* awaited.  (A served list older than five minutes would also start
\* fetchAndUpdateReposInBackground; no list is ever served, see
\* reposServedFromCache, so that call has no task here.)
GetRepositoriesUserDone ==
    \E i \in DOMAIN tasks, resp \in Responses({Login}) :
        /\ tasks[i].pc = "getRepositories.getCurrentUser"
        /\ IF ~resp.ok THEN Throw(i, Hit(tasks[i], resp.error), resp.error)
           ELSE LET c == getCachedUserRepos(ls, now, {},
                                            reposCacheKey(resp.data, "1", "10"))
                IN  IF reposServedFromCache(c.ret, now)
                        THEN NextRepo(i, [tasks[i] EXCEPT
                                            !.repos = slice(c.ret.val.data, 3)], c.ls)
                        ELSE Continue(i, [tasks[i] EXCEPT
                                            !.pc = "repos.listForAuthenticatedUser"], c.ls)

\* await repos.listForAuthenticatedUser, cacheUserRepos, return repos
ListForAuthenticatedUserDone ==
    \E i \in DOMAIN tasks, resp \in Responses(RepoLists) :
        /\ tasks[i].pc = "repos.listForAuthenticatedUser"
        /\ IF ~resp.ok THEN Throw(i, Hit(tasks[i], resp.error), resp.error)
           ELSE LET r == cacheUserRepos(ls, now, {}, reposCacheKey(Login, "1", "10"),
                                        resp.data, "e")
                IN  NextRepo(i, [tasks[i] EXCEPT !.repos = slice(resp.data, 3)], r.ls)

\* await new Promise(resolve => setTimeout(resolve, 200)), then
\* getPullRequests(owner, name, 'open') up to its await: a cached list is
\* returned, without one pulls.list is awaited.
Timer200Done ==
    \E i \in DOMAIN tasks :
        /\ tasks[i].pc = "timer200"
        /\ LET repo == Head(tasks[i].repos)
               c == getCachedPullRequests(ls, now, {}, repo.owner, repo.name)
           IN  IF c.ret # Null
                   THEN NextRepo(i, [tasks[i] EXCEPT !.prs = @ \o c.ret.val.data,
                                                     !.repos = Tail(@)], c.ls)
                   ELSE Continue(i, [tasks[i] EXCEPT !.pc = "pulls.list"], c.ls)

\* await pulls.list, cachePullRequests, return; the catch of the loop goes
\* on with the next repository, or leaves the loop on a 403.
PullsListDone ==
    \E i \in DOMAIN tasks, resp \in Tolerated(PRLists) :
        /\ tasks[i].pc = "pulls.list"
        /\ LET repo == Head(tasks[i].repos) IN
           IF resp.ok
               THEN LET r == cachePullRequests(ls, now, {}, repo.owner, repo.name,
                                               resp.data, "e")
                    IN  NextRepo(i, [tasks[i] EXCEPT !.prs = @ \o resp.data,
                                                     !.repos = Tail(@)], r.ls)
           ELSE IF resp.error.status = 403
               THEN CacheAndReturn(i, Hit(tasks[i], resp.error), ls)
           ELSE NextRepo(i, [Hit(tasks[i], resp.error) EXCEPT !.repos = Tail(@)], ls)

\* await new Promise(resolve => setTimeout(resolve, 300))
Timer300Done ==
    \E i \in DOMAIN tasks :
        /\ tasks[i].pc = "timer300"
        /\ Continue(i, [tasks[i] EXCEPT !.pc = "search2"], ls)

\* await search.issuesAndPullRequests (involves:), whose catch goes on with
\* what the first search found; then the results are combined.
Search2Done ==
    \E i \in DOMAIN tasks, resp \in Tolerated(Search2Results) :
        /\ tasks[i].pc = "search2"
        /\ IF resp.ok
               THEN NextDetail(i, [tasks[i] EXCEPT
                                     !.items = slice(uniquePRs(@ \o resp.data), 50)], ls)
               ELSE NextDetail(i, [Hit(tasks[i], resp.error) EXCEPT
                                     !.items = slice(uniquePRs(@), 50)], ls)

\* await pulls.get for one PR; its catch skips the PR.
PullsGetDone ==
    \E i \in DOMAIN tasks, resp \in Tolerated({"fullPR"}) :
        /\ tasks[i].pc = "pulls.get"
        /\ IF resp.ok
               THEN NextDetail(i, [tasks[i] EXCEPT !.prs = Append(@, Head(tasks[i].items)),
                                                   !.items = Tail(@)], ls)
               ELSE NextDetail(i, [Hit(tasks[i], resp.error) EXCEPT !.items = Tail(@)], ls)

FetchTick == \E d \in FetchTicks : Tick("fetch", d, MaxNowFetch)

InitFetch == InitWith("fetch")

NextFetch ==
    \/ LoadAllPullRequests
    \/ GetCurrentUserDone
    \/ Timer100Done
    \/ SearchDone
    \/ GetRepositoriesUserDone
    \/ ListForAuthenticatedUserDone
    \/ Timer200Done
    \/ PullsListDone
    \/ Timer300Done
    \/ Search2Done
    \/ PullsGetDone
    \/ FetchTick

SpecFetch == InitFetch /\ [][NextFetch]_vars

\* The same service with one call of fetchFreshPRsAwaitingReview at a time:
\* loadAllPullRequests runs only while no fetch is in flight.
LoadWhenIdle == tasks = <<>> /\ LoadAllPullRequests

\* The event loop resumes a task whose awaited promise has settled: a call
\* of the remote API is answered or rejected (the network client times
\* out), a setTimeout fires.
Resume ==
    \/ GetCurrentUserDone
    \/ Timer100Done
    \/ SearchDone
    \/ GetRepositoriesUserDone
    \/ ListForAuthenticatedUserDone
    \/ Timer200Done
    \/ PullsListDone
    \/ Timer300Done
    \/ Search2Done
    \/ PullsGetDone

NextRefresh ==
    \/ LoadWhenIdle
    \/ GetCurrentUserDone
    \/ Timer100Done
    \/ SearchDone
    \/ GetRepositoriesUserDone
    \/ ListForAuthenticatedUserDone
    \/ Timer200Done
    \/ PullsListDone
    \/ Timer300Done
    \/ Search2Done
    \/ PullsGetDone
    \/ FetchTick

\* Every step of Resume changes tasks (a task moves to its next await or
\* leaves), so fairness is stated on tasks.
SpecRefresh == InitFetch /\ [][NextRefresh]_vars /\ WF_tasks(Resume)

----------------------------------------------------------------------------
(* AICacheService in two tabs of one origin: every tab has its own          *)
(* this.cache, loaded by its constructor, and all share localStorage.       *)

AITabs == {1, 2}

\* The unexpired entries of the persisted blob that the copy of the tab
\* does not hold: another tab wrote them after the tab loaded its copy.
Foreign(tab) ==
    LET blob == IF AI_STORAGE_KEY \in DOMAIN ls /\ ~ParseThrows(ls[AI_STORAGE_KEY])
                    THEN Parse(ls[AI_STORAGE_KEY]) ELSE <<>>
    IN  aiUnexpired(blob, now) \ DOMAIN aiCache[tab]

\* An AICacheService method of a tab ran and left S (setItem does not
\* throw).  last.arg.foreign: the foreign entries it found in storage.
AITabsStep(tab, name, key, S) ==
    /\ svc = "aitabs"
    /\ Cardinality(DOMAIN S.cache) <= MaxAIEntries
    /\ aiCache' = [aiCache EXCEPT ![tab] = S.cache]
    /\ ls' = S.ls
    /\ last' = [NoOp(name) EXCEPT !.key = key,
                                  !.arg = [foreign |-> Foreign(tab)],
                                  !.writes = S.writes,
                                  !.tab = tab]
    /\ UNCHANGED <<now, tasks, ui, svc>>

\* The tab is reloaded: new AICacheService()
AITabConstruct ==
    \E tab \in AITabs :
        AITabsStep(tab, "aiConstructor", <<>>, aiConstructor(ls, now, {}, MaxAIEntries))

AITabSet ==
    \E tab \in AITabs, id \in AIPrIds, sha \in AIShas, in \in AIInputs :
        AITabsStep(tab, "aiSet", generateKey(id, sha),
                   aiSet(aiCache[tab], ls, now, {}, MaxAIEntries, id, in[1], sha, in[2]))

AITabGet ==
    \E tab \in AITabs, id \in AIPrIds, sha \in AIShas :
        AITabsStep(tab, "aiGet", generateKey(id, sha),
                   aiGet(aiCache[tab], ls, now, {}, MaxAIEntries, id, sha).st)

AITabRemove ==
    \E tab \in AITabs, id \in AIPrIds, sha \in AIShas :
        AITabsStep(tab, "aiRemove", generateKey(id, sha),
                   aiRemove(aiCache[tab], ls, now, {}, MaxAIEntries, id, sha))

AITabsTick == \E d \in AITicks : Tick("aitabs", d, MaxNowAI)

\* Both tabs have constructed their service on an empty localStorage.
InitAITabs ==
    /\ svc = "aitabs"
    /\ now = 0
    /\ ls = <<>>
    /\ last = NoOp("init")
    /\ aiCache = [tab \in AITabs |-> <<>>]
    /\ tasks = <<>>
    /\ ui = [allPullRequests |-> <<>>, rateLimitError |-> Null]

NextAITabs ==
    \/ AITabConstruct
    \/ AITabSet
    \/ AITabGet
    \/ AITabRemove
    \/ AITabsTick

SpecAITabs == InitAITabs /\ [][NextAITabs]_vars

----------------------------------------------------------------------------
(* GitHubService.getFileContent (github.ts 763-796): the cache is consulted *)
(* and without a content to serve repos.getContent is awaited.              *)

\* ref of a call: absent, or a ref
Refs == {Undefined, <<"HEAD">>}

\* response.data.content: base64 text in lines; '' for an empty file
RemoteContents == {<<>>, <<"\n">>, <<"Yw==", "\n">>}

\* const sha = ref || 'HEAD'
shaOf(ref) == IF ref = Undefined THEN <<"HEAD">> ELSE ref

\* data.content.replace(/\s/g, '')
stripWhitespace(content) == SelectSeq(content, LAMBDA tok : tok # "\n")

\* atob of the base64 texts above
atob(base64) == IF base64 = <<>> THEN "" ELSE "c"

\* if (cached) return cached: null and '' are falsy
fileServed(cached) == cached # Null /\ cached.val # ""

\* A call of getFileContent stopped at its await.
FileTask(owner, repo, path, ref) ==
    [pc |-> "repos.getContent", owner |-> owner, repo |-> repo, path |-> path,
     ref |-> ref]

\* getFileContent up to its return of the cached content or its await
GetFileContent ==
    \E o \in Owners, r \in Repos, p \in Paths, ref \in Refs,
       F \in SUBSET {"getItem", "removeItem"} :
        LET c == getCachedFileContent(ls, now, F, o, r, p, shaOf(ref))
            served == fileServed(c.ret)
        IN  /\ svc = "file"
            /\ Len(tasks) + (IF served THEN 0 ELSE 1) <= MaxTasks
            /\ tasks' = IF served THEN tasks ELSE Append(tasks, FileTask(o, r, p, ref))
            /\ ls' = c.ls
            /\ last' = [NoOp("getFileContent") EXCEPT
                            !.key = FileKey(o, r, p, shaOf(ref)),
                            !.arg = [remoteCall |-> ~served],
                            !.ret = IF served THEN c.ret ELSE Null,
                            !.warned = c.warned,
                            !.hit = c.hit,
                            !.evicted = c.evicted]
            /\ UNCHANGED <<now, aiCache, ui, svc>>

\* await repos.getContent: with a content it is decoded, cached and
\* returned; an error, or a response without content, is logged and thrown.
GetContentDone ==
    \E i \in DOMAIN tasks, resp \in Responses(RemoteContents), F \in SUBSET {"setItem"} :
        LET task == tasks[i]
            found == resp.ok /\ resp.data # <<>>
            content == atob(stripWhitespace(resp.data))
            w == cacheFileContent(ls, now, F, task.owner, task.repo, task.path,
                                  shaOf(task.ref), content)
        IN  /\ svc = "file"
            /\ tasks' = Remove(tasks, i)
            /\ ls' = IF found THEN w.ls ELSE ls
            /\ last' = [NoOp("getContentDone") EXCEPT
                            !.key = FileKey(task.owner, task.repo, task.path,
                                            shaOf(task.ref)),
                            !.arg = [remoteCall |-> TRUE],
                            !.ret = IF found THEN Some(content) ELSE Null,
                            !.threw = ~found,
                            !.warned = found /\ w.warned,
                            !.writes = IF found THEN w.writes ELSE 0,
                            !.hit = IF found THEN w.hit ELSE {}]
            /\ UNCHANGED <<now, aiCache, ui, svc>>

FileTick == \E d \in CacheTicks : Tick("file", d, MaxNow)

InitFile == InitWith("file")

NextFile == GetFileContent \/ GetContentDone \/ FileTick

SpecFile == InitFile /\ [][NextFile]_vars

----------------------------------------------------------------------------
(* PRStatusService in two tabs of one origin.  Each tab runs its handlers   *)
(* one at a time, but localStorage is shared without a lock: the getItem    *)
(* and the setItem of one updateStatus are two accesses, and an access of   *)
(* the other tab can fall between them.                                     *)

StatusTabs == {1, 2}

\* The updates the tabs make: setSpicy(id, true), setDelayed(id, true).
TabUpdates == {[spicy |-> TRUE], [delayed |-> TRUE]}

Idle == [pc |-> "idle"]

\* updateStatus up to allStatuses.set(prId, updated): the blob is read and
\* the record of prId is merged into the Map.
TabGetAllStatuses ==
    \E tab \in StatusTabs, prId \in PrIds, updates \in TabUpdates :
        /\ svc = "tabs"
        /\ tasks[tab] = Idle
        /\ LET all == getAllStatuses(ls, now, {})
               existing == IF prId \in DOMAIN all.map THEN all.map[prId]
                           ELSE [id |-> prId, spicy |-> FALSE, delayed |-> FALSE,
                                 completed |-> FALSE, timestamp |-> now]
           IN  tasks' = [tasks EXCEPT ![tab] =
                            [pc |-> "saveAllStatuses", prId |-> prId,
                             read |-> DOMAIN all.map,
                             statusMap |-> (prId :> mergeStatus(existing, updates, now))
                                               @@ all.map]]
        /\ last' = [NoOp("getAllStatuses") EXCEPT !.arg = last.arg, !.tab = tab]
        /\ UNCHANGED <<now, ls, aiCache, ui, svc>>

\* this.saveAllStatuses(allStatuses), and updateStatus returns.  The ghost
\* last.arg keeps the ids the Map was read with and the ids of all the
\* updates that have returned.
TabSaveAllStatuses ==
    \E tab \in StatusTabs :
        /\ svc = "tabs"
        /\ tasks[tab] # Idle
        /\ ls' = saveAllStatuses(ls, {}, tasks[tab].statusMap).ls
        /\ tasks' = [tasks EXCEPT ![tab] = Idle]
        /\ last' = [NoOp("updateStatus") EXCEPT
                        !.key = <<ToString(tasks[tab].prId)>>,
                        !.arg = [read |-> tasks[tab].read,
                                 returned |-> last.arg.returned \cup {tasks[tab].prId}],
                        !.writes = 1,
                        !.tab = tab]
        /\ UNCHANGED <<now, aiCache, ui, svc>>

InitTabs ==
    /\ svc = "tabs"
    /\ now = 0
    /\ ls = <<>>
    /\ last = [NoOp("init") EXCEPT !.arg = [read |-> {}, returned |-> {}]]
    /\ aiCache = [tab \in Tabs |-> <<>>]
    /\ tasks = [tab \in StatusTabs |-> Idle]
    /\ ui = [allPullRequests |-> <<>>, rateLimitError |-> Null]

NextTabs ==
    \/ TabGetAllStatuses
    \/ TabSaveAllStatuses

SpecTabs == InitTabs /\ [][NextTabs]_vars

----------------------------------------------------------------------------
(* The dashboard of one tab: the handlers of the triage buttons and the     *)
(* callbacks of their timers.  A handler or callback runs to its end before *)
(* the next one starts.  tasks holds the timers set and not yet fired, in   *)
(* the order they were set.                                                 *)

MaxTimers == 2

\* prStatusService.setCompleted(prId, true); setSpicy(prId, false);
\* setDelayed(prId, false) with the bug of leaving out the two clearing calls.
completeReviewOnly(store, t, prId) == setCompleted(store, t, {}, prId, TRUE).ls

\* prStatusService.setCompleted(prId, true); setSpicy(prId, false);
\* setDelayed(prId, false)
completeReview(store, t, prId) ==
    setDelayed(setSpicy(setCompleted(store, t, {}, prId, TRUE).ls,
                        t, {}, prId, FALSE).ls,
               t, {}, prId, FALSE).ls

\* prStatusService.setDelayed(prId, true); setSpicy(prId, false);
\* setCompleted(prId, false)
delayUntilTomorrow(store, t, prId) ==
    setCompleted(setSpicy(setDelayed(store, t, {}, prId, TRUE).ls,
                          t, {}, prId, FALSE).ls,
                 t, {}, prId, FALSE).ls

\* prStatusService.setSpicy(prId, true); setDelayed(prId, false);
\* setCompleted(prId, false)
spiceItUp(store, t, prId) ==
    setCompleted(setDelayed(setSpicy(store, t, {}, prId, TRUE).ls,
                            t, {}, prId, FALSE).ls,
                 t, {}, prId, FALSE).ls

\* setTimeout(callback, delay) of a handler for prId
Timer(kind, prId, delay) == [kind |-> kind, prId |-> prId, delay |-> delay]

\* The timer at position i can be the next to fire: no timer set before it
\* is due earlier (it was set no later and its delay is not longer).
CanFire(i) == \A j \in 1..(i - 1) : tasks[j].delay > tasks[i].delay

\* A handler or callback of the dashboard ran.
DashboardStep(name, prId, store, state, timers) ==
    /\ svc = "dashboard"
    /\ Len(timers) <= MaxTimers
    /\ ls' = store
    /\ ui' = state
    /\ tasks' = timers
    /\ last' = [NoOp(name) EXCEPT !.key = <<ToString(prId)>>]
    /\ UNCHANGED <<now, aiCache, svc>>

HandleCompleteReview ==
    \E prId \in PrIds :
        DashboardStep("handleCompleteReview", prId, ls,
                      [ui EXCEPT !.checkingAnimation = Some(prId)],
                      Append(tasks, Timer("completeReview", prId, 500)))

CompleteReviewTimer ==
    \E i \in DOMAIN tasks :
        /\ tasks[i].kind = "completeReview"
        /\ CanFire(i)
        /\ LET prId == tasks[i].prId IN
           DashboardStep("completeReviewTimer", prId, completeReview(ls, now, prId),
                         [ui EXCEPT !.completedReviews = @ \cup {prId},
                                    !.spicyReviews = @ \ {prId},
                                    !.delayedReviews = @ \ {prId},
                                    !.checkingAnimation = Null],
                         Remove(tasks, i))

HandleUncompleteReview ==
    \E prId \in PrIds :
        DashboardStep("handleUncompleteReview", prId,
                      setCompleted(ls, now, {}, prId, FALSE).ls,
                      [ui EXCEPT !.completedReviews = @ \ {prId}], tasks)

HandleDelayUntilTomorrow ==
    \E prId \in PrIds :
        DashboardStep("handleDelayUntilTomorrow", prId, ls, ui,
                      Append(tasks, Timer("delayUntilTomorrow", prId, 300)))

DelayUntilTomorrowTimer ==
    \E i \in DOMAIN tasks :
        /\ tasks[i].kind = "delayUntilTomorrow"
        /\ CanFire(i)
        /\ LET prId == tasks[i].prId IN
           DashboardStep("delayUntilTomorrowTimer", prId,
                         delayUntilTomorrow(ls, now, prId),
                         [ui EXCEPT !.delayedReviews = @ \cup {prId},
                                    !.spicyReviews = @ \ {prId},
                                    !.completedReviews = @ \ {prId}],
                         Remove(tasks, i))

HandleSpiceItUp ==
    \E prId \in PrIds :
        DashboardStep("handleSpiceItUp", prId, spiceItUp(ls, now, prId),
                      [ui EXCEPT !.delayedReviews = @ \ {prId},
                                 !.completedReviews = @ \ {prId},
                                 !.spicyReviews = @ \cup {prId},
                                 !.spiceAnimation = Some(prId)],
                      Append(tasks, Timer("spiceAnimation", prId, 800)))

SpiceAnimationTimer ==
    \E i \in DOMAIN tasks :
        /\ tasks[i].kind = "spiceAnimation"
        /\ CanFire(i)
        /\ DashboardStep("spiceAnimationTimer", tasks[i].prId, ls,
                         [ui EXCEPT !.spiceAnimation = Null], Remove(tasks, i))

HandleCoolDown ==
    \E prId \in PrIds :
        DashboardStep("handleCoolDown", prId, setSpicy(ls, now, {}, prId, FALSE).ls,
                      [ui EXCEPT !.spicyReviews = @ \ {prId}], tasks)

HandleUndelay ==
    \E prId \in PrIds :
        DashboardStep("handleUndelay", prId, setDelayed(ls, now, {}, prId, FALSE).ls,
                      [ui EXCEPT !.delayedReviews = @ \ {prId}], tasks)

\* The dashboard mounts on an empty localStorage: its three Sets are read
\* from the triage store.
InitDashboard ==
    /\ svc = "dashboard"
    /\ now = 0
    /\ ls = <<>>
    /\ last = NoOp("init")
    /\ aiCache = [tab \in Tabs |-> <<>>]
    /\ tasks = <<>>
    /\ ui = [completedReviews |-> getCompletedPRs(ls, now, {}).ret.val,
             delayedReviews |-> getDelayedPRs(ls, now, {}).ret.val,
             spicyReviews |-> getSpicyPRs(ls, now, {}).ret.val,
             checkingAnimation |-> Null,
             spiceAnimation |-> Null]

NextDashboard ==
    \/ HandleCompleteReview
    \/ CompleteReviewTimer
    \/ HandleUncompleteReview
    \/ HandleDelayUntilTomorrow
    \/ DelayUntilTomorrowTimer
    \/ HandleSpiceItUp
    \/ SpiceAnimationTimer
    \/ HandleCoolDown
    \/ HandleUndelay

SpecDashboard == InitDashboard /\ [][NextDashboard]_vars

----------------------------------------------------------------------------
(* The composition of storage keys from identities.  Owners and user names  *)
(* are GitHub logins (no underscore); repository names and paths may hold   *)
(* underscores.  Every entry is stored with its identity as payload, so     *)
(* that a read tells whose entry it returns.                                *)

KeyOwners == {<<"o">>}
KeyRepos == {<<"a">>, <<"a", "_", "b">>}
KeyPaths == {<<"c">>, <<"b", "_", "c">>}
KeyShas == {<<"s">>}
KeyUsernames == {<<"u">>, <<"v">>}
KeyPrIds == {101}
KeyCommitShas == {<<>>, <<"sha1">>}

\* A handler of RepoCacheService ran for identity id with result r.
KeysStep(name, key, id, r) ==
    /\ svc = "keys"
    /\ ls' = r.ls
    /\ last' = Op(name, key, Some(id), r)
    /\ UNCHANGED <<now, aiCache, tasks, ui, svc>>

KeysCacheRepository ==
    \E o \in KeyOwners, r \in KeyRepos :
        KeysStep("cacheRepository", RepoKey(o, r), <<o, r>>,
                 cacheRepository(ls, now, {}, o, r, <<o, r>>, Undefined))

KeysGetCachedRepository ==
    \E o \in KeyOwners, r \in KeyRepos :
        KeysStep("getCachedRepository", RepoKey(o, r), <<o, r>>,
                 getCachedRepository(ls, now, {}, o, r))

KeysCacheFileContent ==
    \E o \in KeyOwners, r \in KeyRepos, p \in KeyPaths, s \in KeyShas :
        KeysStep("cacheFileContent", FileKey(o, r, p, s), <<o, r, p, s>>,
                 cacheFileContent(ls, now, {}, o, r, p, s, <<o, r, p, s>>))

KeysGetCachedFileContent ==
    \E o \in KeyOwners, r \in KeyRepos, p \in KeyPaths, s \in KeyShas :
        KeysStep("getCachedFileContent", FileKey(o, r, p, s), <<o, r, p, s>>,
                 getCachedFileContent(ls, now, {}, o, r, p, s))

KeysCacheUserRepos ==
    \E u \in KeyUsernames :
        KeysStep("cacheUserRepos", UserReposKey(u), <<u>>,
                 cacheUserRepos(ls, now, {}, u, <<u>>, Undefined))

KeysGetCachedUserRepos ==
    \E u \in KeyUsernames :
        KeysStep("getCachedUserRepos", UserReposKey(u), <<u>>,
                 getCachedUserRepos(ls, now, {}, u))

\* An AICacheService method ran for identity id and left S, returning ret.
KeysAIStep(name, key, id, S, ret) ==
    /\ svc = "keys"
    /\ aiCache' = [aiCache EXCEPT ![1] = S.cache]
    /\ ls' = S.ls
    /\ last' = [op |-> name, key |-> key, arg |-> Some(id), ret |-> ret, threw |-> FALSE,
                warned |-> S.warned, writes |-> S.writes, hit |-> S.hit,
                evicted |-> FALSE, tab |-> 1]
    /\ UNCHANGED <<now, tasks, ui, svc>>

KeysAISet ==
    \E id \in KeyPrIds, sha \in KeyCommitShas :
        KeysAIStep("aiSet", generateKey(id, sha), <<id, sha>>,
                   aiSet(aiCache[1], ls, now, {},
                         Cardinality(KeyPrIds \X KeyCommitShas),
                         id, <<id, sha>>, sha, NoTtl),
                   Null)

KeysAIGet ==
    \E id \in KeyPrIds, sha \in KeyCommitShas :
        LET r == aiGet(aiCache[1], ls, now, {},
                       Cardinality(KeyPrIds \X KeyCommitShas), id, sha) IN
        KeysAIStep("aiGet", generateKey(id, sha), <<id, sha>>, r.st, r.ret)

InitKeys == InitWith("keys")

NextKeys ==
    \/ KeysCacheRepository
    \/ KeysGetCachedRepository
    \/ KeysCacheFileContent
    \/ KeysGetCachedFileContent
    \/ KeysCacheUserRepos
    \/ KeysGetCachedUserRepos
    \/ KeysAISet
    \/ KeysAIGet

SpecKeys == InitKeys /\ [][NextKeys]_vars

----------------------------------------------------------------------------
(* Properties of the storage services, checked under SpecStores *)

GetOps ==
    {"getCachedRepository", "getCachedPullRequests", "getCachedFileContent",
     "getCachedUserRepos"}

SetOps == {"cacheRepository", "cachePullRequests", "cacheFileContent", "cacheUserRepos"}

StatusReadOps ==
    {"getStatus", "getSpicyPRs", "getDelayedPRs", "getCompletedPRs"}

\* The TTL of the namespace a get method reads.
NamespaceTTL(op, key) ==
    CASE op = "getCachedRepository" -> CACHE_DURATION
      [] op = "getCachedPullRequests" ->
            IF key = PRsKey(ALL, ALL_PRS_KEY)
                THEN ALL_PR_CACHE_DURATION ELSE PR_CACHE_DURATION
      [] op = "getCachedFileContent" -> FILE_CACHE_DURATION
      [] op = "getCachedUserRepos" -> USER_REPOS_CACHE_DURATION

\* The ttl a review was stored with (see AIInputs).
RequestedTtl(data) ==
    LET in == CHOOSE i \in AIInputs : i[1] = data
    IN  IF in[2] = NoTtl THEN defaultTTL ELSE in[2]

\* C1: TTL respected.  Whenever a namespace get returns a payload, the entry
\* it read is at most TTL old: a get later than T + TTL never returns the
\* payload written at T, whatever operations ran in between.
C1_TTLRespected ==
    /\ (last.op \in GetOps /\ last.ret # Null) =>
            /\ last.key \in DOMAIN ls
            /\ ~ParseThrows(ls[last.key])
            /\ now - Parse(ls[last.key]).timestamp <= NamespaceTTL(last.op, last.key)
    /\ (last.op = "aiGet" /\ last.ret # Null) =>
            /\ last.key \in DOMAIN aiCache[last.tab]
            /\ now - aiCache[last.tab][last.key].timestamp
                    <= RequestedTtl(aiCache[last.tab][last.key].data)

\* A get found an entry older than its TTL, removed it and returned null.
C1_Witness ==
    /\ last.op \in GetOps
    /\ last.evicted
    /\ last.ret = Null
    /\ last.key \notin DOMAIN ls

\* C3: round trip.  Right after a set that reached the storage, a get of the
\* same identity at any time within the TTL returns the data that was set.
C3_RoundTrip ==
    /\ \A o \in Owners, r \in Repos, dt \in 0..CACHE_DURATION :
          (last.op = "cacheRepository" /\ last.hit = {} /\ last.key = RepoKey(o, r)) =>
              LET g == getCachedRepository(ls, now + dt, {}, o, r) IN
              g.ret # Null /\ g.ret.val.data = last.arg.val
    /\ \A id \in PRIdents, dt \in 0..PR_CACHE_DURATION :
          (last.op = "cachePullRequests" /\ last.hit = {}
                /\ last.key = PRsKey(id[1], id[2])) =>
              LET g == getCachedPullRequests(ls, now + dt, {}, id[1], id[2]) IN
              g.ret # Null /\ g.ret.val.data = last.arg.val
    /\ \A o \in Owners, r \in Repos, p \in Paths, s \in Shas,
          dt \in 0..FILE_CACHE_DURATION :
          (last.op = "cacheFileContent" /\ last.hit = {}
                /\ last.key = FileKey(o, r, p, s)) =>
              getCachedFileContent(ls, now + dt, {}, o, r, p, s).ret = Some(last.arg.val)
    /\ \A u \in Usernames, dt \in 0..USER_REPOS_CACHE_DURATION :
          (last.op = "cacheUserRepos" /\ last.hit = {} /\ last.key = UserReposKey(u)) =>
              LET g == getCachedUserRepos(ls, now + dt, {}, u) IN
              g.ret # Null /\ g.ret.val.data = last.arg.val
    /\ \A id \in AIPrIds, sha \in AIShas :
          (last.op = "aiSet" /\ last.key = generateKey(id, sha)) =>
              \A dt \in {0, RequestedTtl(last.arg.val)} :
                  aiGet(aiCache[last.tab], ls, now + dt, {}, MaxQuota, id, sha).ret
                      = Some(last.arg.val)

\* A set replaced an older entry of the same identity.
C3_Witness ==
    /\ last.op = "cachePullRequests"
    /\ last.hit = {}
    /\ last.arg = Some(<<1>>)
    /\ now > 0

\* C4: storage-failure containment.  No operation of the cache services, of
\* the AI cache or of the triage store throws to its caller when a storage
\* call throws, and a get whose storage call threw returns null.
C4_FailureContained ==
    last.hit # {} =>
        /\ ~last.threw
        /\ last.op \in GetOps => last.ret = Null

\* C5: quota-exceeded retry.  A set whose storage write throws makes exactly
\* two storage write attempts: the first, and one retry after the eviction.
C5_RetryOnce ==
    (last.op \in SetOps \cup {"aiSet"} /\ "setItem" \in last.hit) => last.writes = 2

\* C6: corrupt-entry resilience.  After a get whose storage calls all worked,
\* the key it read holds no string that is not JSON, and the get did not throw.
C6_CorruptRemoved ==
    /\ (last.op \in GetOps /\ last.hit = {}) =>
            /\ ~last.threw
            /\ ~(last.key \in DOMAIN ls /\ ParseThrows(ls[last.key]))
    /\ (last.op \in StatusReadOps /\ last.hit = {}) =>
            /\ ~last.threw
            /\ ~(STATUS_STORAGE_KEY \in DOMAIN ls /\ ParseThrows(ls[STATUS_STORAGE_KEY]))

----------------------------------------------------------------------------
(* Properties of the aggregate pull-request fetch, checked under SpecFetch *)

\* Claim C2 (stale-while-revalidate is idempotent in flight): while a
\* background refresh of the aggregate list is in flight, a second read
\* schedules no second one, so at most one background refresh is in flight.
\* The code keeps no record of a refresh in flight: violated.
C2_OneRefreshInFlight ==
    Cardinality({i \in DOMAIN tasks : tasks[i].bg}) <= 1

\* Claim C7 (rate-limit classification): when the blocking fetch ends, the
\* caller has received an error whose message matches /rate limit exceeded/i
\* exactly when the remote API answered a 403 whose message contains
\* "rate limit", and the banner of the UI is set exactly in that case.
\* Violated: a plain 403 is rethrown with a message that matches, and a
\* rate-limit 403 of a tolerated call is swallowed.
C7_RateLimitClassified ==
    last.op = "blockingDone" =>
        LET rateLimited == \E e \in last.arg.hits :
                               e.status = 403 /\ includes(e.message, <<"rate limit">>)
            matches == last.threw /\ includes(last.ret.val, <<"rate limit", " exceeded">>)
        IN  /\ matches <=> rateLimited
            /\ (ui.rateLimitError # Null) <=> rateLimited

\* Claim C8 (background refresh failures are contained): when a background
\* refresh during which a remote call failed ends, no error has reached a
\* caller and the refresh has not written the aggregate entry.  Violated:
\* after a failure the refresh catches, it goes on and overwrites the entry.
C8_BackgroundFailureContained ==
    (last.op = "backgroundDone" /\ last.arg.hits # {}) =>
        /\ ~last.threw
        /\ last.writes = 0

\* Claim C9 (errors on the blocking path are propagated): when a blocking
\* fetch during which a remote call failed ends, the caller has received a
\* thrown error and the fetch has written no cache entry for the aggregate
\* list.  Violated: failures of the searches, of a repository's listing and
\* of a PR's details are caught inside, and the fetch returns and caches
\* what it has.
C9_ErrorsPropagated ==
    (last.op = "blockingDone" /\ last.arg.hits # {}) =>
        /\ last.threw
        /\ last.writes = 0

\* Claim C10 (the update callback): when a background refresh has ended
\* with a fresh list, the list the UI holds is that fresh list.  Violated:
\* no callback is taken or invoked, the UI keeps the list it was given.
C10_CallbackInvoked ==
    (last.op = "backgroundDone" /\ ~last.arg.rejected) =>
        ui.allPullRequests = last.ret.val

\* Claim C11 (a fresh hit needs no network): after a read of the aggregate
\* list that found an entry younger than two minutes, the read has returned
\* the cached list and has started no call of fetchFreshPRsAwaitingReview,
\* blocking or in the background.  Violated: a cached empty list is not
\* served (cached.data.length > 0), the read fetches.
C11_FreshHitNoNetwork ==
    (/\ last.op = "loadAllPullRequests"
     /\ last.key \in DOMAIN ls
     /\ now - Parse(ls[last.key]).timestamp < twoMinutes) =>
        /\ last.ret = Some(Parse(ls[last.key]).data)
        /\ last.arg.spawned = <<>>

----------------------------------------------------------------------------
(* Properties of the triage store, checked under SpecStores *)

\* The record of a PR in the persisted triage blob.
StoredStatus(store, idStr) == Parse(store[STATUS_STORAGE_KEY])[idStr]

Flags(status) == <<status.spicy, status.delayed, status.completed>>

\* Claim C12 (triage idempotence): after setSpicy(id, true) has stored a
\* record, a second setSpicy(id, true), at once or at any time before the
\* record expires, stores a record with the same spicy, delayed and
\* completed flags.
C12_SetSpicyIdempotent ==
    (last.op = "setSpicy" /\ last.arg = Some(TRUE) /\ last.hit = {}) =>
        \A dt \in {0, STATUS_CACHE_DURATION - 1} :
            LET again == setSpicy(ls, now + dt, {}, NumberOf(last.key[1]), TRUE).ls
            IN  Flags(StoredStatus(again, last.key[1]))
                    = Flags(StoredStatus(ls, last.key[1]))

\* setSpicy(id, true) has run on a record that is also delayed, at a time
\* other than the start.
C12_Witness ==
    /\ last.op = "setSpicy" /\ last.arg = Some(TRUE) /\ last.hit = {}
    /\ now > 0
    /\ Flags(StoredStatus(ls, last.key[1])) = <<TRUE, TRUE, FALSE>>

\* Claim C13 (triage set/unset): setSpicy(id, true) followed by
\* setSpicy(id, false) leaves id out of getSpicyPRs(), and the same for
\* delayed and completed, whatever other records the blob holds.  Checked
\* on every reachable blob for the two calls in a row, and in every state
\* an unset has just produced.
C13_UnsetRemoves ==
    /\ svc = "status" =>
        \A id \in PrIds :
            /\ id \notin getSpicyPRs(
                    setSpicy(setSpicy(ls, now, {}, id, TRUE).ls, now, {}, id, FALSE).ls,
                    now, {}).ret.val
            /\ id \notin getDelayedPRs(
                    setDelayed(setDelayed(ls, now, {}, id, TRUE).ls, now, {}, id, FALSE).ls,
                    now, {}).ret.val
            /\ id \notin getCompletedPRs(
                    setCompleted(setCompleted(ls, now, {}, id, TRUE).ls, now, {}, id, FALSE).ls,
                    now, {}).ret.val
    /\ (svc = "status" /\ last.arg = Some(FALSE) /\ last.hit = {}) =>
        /\ last.op = "setSpicy" =>
               NumberOf(last.key[1]) \notin getSpicyPRs(ls, now, {}).ret.val
        /\ last.op = "setDelayed" =>
               NumberOf(last.key[1]) \notin getDelayedPRs(ls, now, {}).ret.val
        /\ last.op = "setCompleted" =>
               NumberOf(last.key[1]) \notin getCompletedPRs(ls, now, {}).ret.val

\* setSpicy(42, false) has run while 41 is spicy, and 42 has a record that
\* keeps another flag.
C13_Witness ==
    /\ last.op = "setSpicy" /\ last.arg = Some(FALSE) /\ last.hit = {}
    /\ last.key = <<"42">>
    /\ getSpicyPRs(ls, now, {}).ret.val = {41}
    /\ StoredStatus(ls, "42").delayed

FlagNames == {"spicy", "delayed", "completed"}

\* setSpicy, setDelayed or setCompleted, by the name of the flag.
SetFlag(store, t, F, prId, flag, b) ==
    IF flag = "spicy" THEN setSpicy(store, t, F, prId, b)
    ELSE IF flag = "delayed" THEN setDelayed(store, t, F, prId, b)
    ELSE setCompleted(store, t, F, prId, b)

\* Claim C14 (the triage store has no exclusivity constraint): on every
\* reachable blob, setSpicy / setDelayed / setCompleted(id, b) stores b in
\* the named flag, leaves the two other flags of the PR as its unexpired
\* record had them (false when it had none), and leaves the unexpired record
\* of every other PR as it was.  A record with the three flags true is
\* reachable (C14_Witness).
C14_FrameOfUpdate ==
    svc = "status" =>
        \A id \in PrIds, b \in BOOLEAN, flag \in FlagNames :
            LET before == getAllStatuses(ls, now, {}).map
                after == Parse(SetFlag(ls, now, {}, id, flag, b).ls[STATUS_STORAGE_KEY])
            IN  /\ after[ToString(id)][flag] = b
                /\ \A g \in FlagNames \ {flag} :
                       after[ToString(id)][g]
                           = IF id \in DOMAIN before THEN before[id][g] ELSE FALSE
                /\ \A other \in DOMAIN before \ {id} :
                       after[ToString(other)] = before[other]

\* An update has just made the three flags of 42 true while 41 has a record.
C14_Witness ==
    /\ last.op \in {"setSpicy", "setDelayed", "setCompleted"}
    /\ last.arg = Some(TRUE) /\ last.hit = {}
    /\ last.key = <<"42">>
    /\ Flags(StoredStatus(ls, "42")) = <<TRUE, TRUE, TRUE>>
    /\ 41 \in DOMAIN getAllStatuses(ls, now, {}).map

----------------------------------------------------------------------------
(* Properties of the AI cache, checked under SpecStores *)

\* The data AIInputs stores without a ttl.
DefaultTtlData == {in[1] : in \in {i \in AIInputs : i[2] = NoTtl}}

\* Claim C15 (AI cache 24-hour expiry): after a set with the default TTL at
\* T0, a get of the same (prId, commitSha) in the tab returns the review at
\* T0, T0 + 23h and T0 + 24h, and returns null at T0 + 24h + 1min and at
\* T0 + 25h, leaving the entry neither in the cache of the tab nor, the save
\* working, in the persisted blob.  And whenever a get has just found an
\* entry expired, the cache of the tab no longer holds it.
C15_DefaultExpiry ==
    /\ (last.op = "aiSet" /\ last.arg.val \in DefaultTtlData) =>
        \A id \in AIPrIds, sha \in AIShas :
            generateKey(id, sha) = last.key =>
                /\ \A dt \in {0, 1380, defaultTTL} :
                       aiGet(aiCache[last.tab], ls, now + dt, {}, MaxAIEntries, id, sha).ret
                           = last.arg
                /\ \A dt \in {defaultTTL + 1, 1500} :
                       LET r == aiGet(aiCache[last.tab], ls, now + dt, {}, MaxAIEntries,
                                      id, sha)
                       IN  /\ r.ret = Null
                           /\ last.key \notin DOMAIN r.st.cache
                           /\ last.key \notin DOMAIN Parse(r.st.ls[AI_STORAGE_KEY])
    /\ (last.op = "aiGet" /\ last.evicted) =>
        /\ last.ret = Null
        /\ last.key \notin DOMAIN aiCache[last.tab]

\* A get has returned a review stored with the default TTL exactly 24 hours
\* after it was stored.
C15_Witness ==
    /\ last.op = "aiGet"
    /\ last.ret # Null
    /\ last.ret.val \in DefaultTtlData
    /\ now - aiCache[last.tab][last.key].timestamp = defaultTTL

----------------------------------------------------------------------------
(* Properties of the sweep of RepoCacheService, checked under SpecStores *)

\* The TTL the namespace get applies to the entry under a key of CacheKeys.
KeyTTL(key) ==
    IF \E id \in PRIdents : key = PRsKey(id[1], id[2])
        THEN prCacheDuration((CHOOSE id \in PRIdents : key = PRsKey(id[1], id[2]))[1])
    ELSE IF startsWith(key, <<"file", "_">>) THEN FILE_CACHE_DURATION
    ELSE IF startsWith(key, <<"user", "_", "repos", "_">>) THEN USER_REPOS_CACHE_DURATION
    ELSE CACHE_DURATION

\* The keys holding an entry (valid JSON) of a cache namespace.
Entries(store) == {k \in DOMAIN store : isCacheKey(k) /\ ~ParseThrows(store[k])}

\* Claim C16 (sweeper exactness): in every storage state, clearExpired
\* removes an entry exactly when its age exceeds the TTL of its namespace.
\* Violated: the sweep gives every prs_ key the per-repo TTL, so it removes
\* the aggregate entry between 2 and 5 minutes of age.
C16_SweepExact ==
    svc = "cache" =>
        \A k \in Entries(ls) :
            (k \notin DOMAIN clearExpired(ls, now, {}).ls)
                <=> (now - Parse(ls[k]).timestamp > KeyTTL(k))

\* Claim C17 (the aggregate entry has its longer TTL everywhere): an
\* aggregate entry older than the per-repo TTL and not older than its own
\* is returned by getCachedPullRequests, survives clearExpired, and is not
\* among the entries getStats counts as expired.  Violated by clearExpired
\* and getStats, which derive 2 minutes from the prefix prs_.
C17_AggregateTTLEverywhere ==
    LET key == PRsKey(ALL, ALL_PRS_KEY) IN
    (/\ svc = "cache"
     /\ key \in Entries(ls)
     /\ now - Parse(ls[key]).timestamp > PR_CACHE_DURATION
     /\ now - Parse(ls[key]).timestamp <= ALL_PR_CACHE_DURATION) =>
        /\ getCachedPullRequests(ls, now, {}, ALL, ALL_PRS_KEY).ret = Some(Parse(ls[key]))
        /\ key \in DOMAIN clearExpired(ls, now, {}).ls
        /\ getStats(ls, now, {}).ret.val.expiredEntries
               = Cardinality({k \in DOMAIN ls :
                     /\ isCacheKey(k)
                     /\ \/ ParseThrows(ls[k])
                        \/ now - Parse(ls[k]).timestamp > KeyTTL(k)})

----------------------------------------------------------------------------
(* Properties of set, checked under SpecStores *)

\* The blob of the AI cache as a reader of localStorage finds it.
AIBlob(store) ==
    IF AI_STORAGE_KEY \in DOMAIN store /\ ~ParseThrows(store[AI_STORAGE_KEY])
        THEN Parse(store[AI_STORAGE_KEY]) ELSE <<>>

\* Claim C18 (set is atomic per identity): in every state, a set of a
\* pull-request list leaves under its key either the complete new entry
\* (data, timestamp and etag of this call, nothing of the entry before) or,
\* when the write fails, the complete old entry; the entries a reader finds
\* are each the entry of one call.  The same for AICacheService.set: the
\* in-memory entry is the complete new one and the persisted entry is the
\* complete new one or the one persisted before.
C18_SetReplacesWhole ==
    /\ svc = "cache" =>
          \A id \in PRIdents, in \in PRInputs :
              LET key == PRsKey(id[1], id[2])
                  new == Stringify([data |-> in[1], timestamp |-> now, etag |-> in[2]])
                  ok == cachePullRequests(ls, now, {}, id[1], id[2], in[1], in[2])
                  ko == cachePullRequests(ls, now, {"setItem"}, id[1], id[2], in[1], in[2])
              IN  /\ ok.ls[key] = new
                  /\ getCachedPullRequests(ok.ls, now, {}, id[1], id[2]).ret
                        = Some(Parse(new))
                  /\ ko.ls = ls
    /\ svc = "cache" =>
          \A id \in PRIdents :
              PRsKey(id[1], id[2]) \in Entries(ls) =>
                  LET e == Parse(ls[PRsKey(id[1], id[2])]) IN
                  \E in \in PRInputs :
                      e = Parse(Stringify([data |-> in[1], timestamp |-> e.timestamp,
                                           etag |-> in[2]]))
    /\ svc = "ai" =>
          \A tab \in Tabs, id \in AIPrIds, sha \in AIShas, in \in AIInputs,
             F \in SUBSET {"setItem"}, q \in 0..MaxQuota :
              LET key == generateKey(id, sha)
                  new == [data |-> in[1], timestamp |-> now,
                          expiresAt |-> aiExpiresAt(now, in[2])]
                  S == aiSet(aiCache[tab], ls, now, F, q, id, in[1], sha, in[2])
              IN  /\ S.cache[key] = new
                  /\ key \in DOMAIN AIBlob(S.ls) =>
                        \/ AIBlob(S.ls)[key] = new
                        \/ /\ key \in DOMAIN AIBlob(ls)
                           /\ AIBlob(S.ls)[key] = AIBlob(ls)[key]
    /\ svc = "ai" =>
          \A tab \in Tabs : \A k \in DOMAIN aiCache[tab] :
              LET e == aiCache[tab][k] IN
              \E in \in AIInputs :
                  e = [data |-> in[1], timestamp |-> e.timestamp,
                       expiresAt |-> aiExpiresAt(e.timestamp, in[2])]

\* Witness of C18: a list with an etag is stored under the aggregate key and
\* time has passed since; a set of the list without etag was attempted on it
\* and its write failed, so the old entry is there whole.
C18_Witness ==
    /\ svc = "cache"
    /\ last.op = "cachePullRequests"
    /\ last.arg = Some(<<>>)
    /\ last.hit = {"setItem"}
    /\ last.key \in Entries(ls)
    /\ Parse(ls[last.key]) = [data |-> <<1>>, timestamp |-> 0, etag |-> "e"]
    /\ now > 0

----------------------------------------------------------------------------
(* Properties of the key mapping, checked under SpecKeys *)

\* Claim C19 (the key mapping is collision-free within a namespace): in
\* every state, a get that hits returns the entry that was set for the
\* identity it was asked for, never the entry of another identity.
\* Violated in the file namespace: owner/repo/path/sha are joined with "_",
\* which repository names and paths may contain, so o/a_b with path c and
\* o/a with path b_c share the key file_o_a_b_c_s.
C19_NoCollision ==
    /\ (last.op = "getCachedRepository" /\ last.ret # Null) =>
            last.ret.val.data = last.arg.val
    /\ (last.op = "getCachedFileContent" /\ last.ret # Null) =>
            last.ret.val = last.arg.val
    /\ (last.op = "getCachedUserRepos" /\ last.ret # Null) =>
            last.ret.val.data = last.arg.val
    /\ (last.op = "aiGet" /\ last.ret # Null) =>
            last.ret.val = last.arg.val

----------------------------------------------------------------------------
(* Properties of clearAll, checked under SpecStores *)

\* localStorage.setItem('claude-api-key', apiKey.trim())
CLAUDE_API_KEY == <<"claude", "-", "api", "-", "key">>

CachePrefixes ==
    {<<"repo", "_">>, <<"prs", "_">>, <<"file", "_">>, <<"user", "_", "repos", "_">>}

HasCachePrefix(key) == \E p \in CachePrefixes : startsWith(key, p)

\* What the other writers of the origin may have left in localStorage next
\* to the keys of the service under test: the credential, the two blobs and
\* one entry of every cache namespace.
OtherKeys ==
    (CLAUDE_API_KEY :> Garbage)
        @@ (AI_STORAGE_KEY :> StringifyMap(<<>>))
        @@ (STATUS_STORAGE_KEY :> StringifyMap(<<>>))
        @@ [k \in CacheKeys |-> Garbage]

\* Claim C20 (frame of clearAll): in every storage state, clearAll of the
\* repository cache removes every key that starts with repo_, prs_, file_
\* or user_repos_ and leaves every other key with its value, the triage
\* blob, the AI blob and the credential among them; clearAll of the triage
\* store removes reviewly_pr_statuses and nothing else.
C20_ClearAllFrame ==
    LET store == ls @@ OtherKeys
        c == clearAll(store, {}).ls
        s == statusClearAll(store, {}).ls
    IN  /\ DOMAIN c = {k \in DOMAIN store : ~HasCachePrefix(k)}
        /\ \A k \in DOMAIN c : c[k] = store[k]
        /\ {CLAUDE_API_KEY, AI_STORAGE_KEY, STATUS_STORAGE_KEY} \subseteq DOMAIN c
        /\ DOMAIN s = DOMAIN store \ {STATUS_STORAGE_KEY}
        /\ \A k \in DOMAIN s : s[k] = store[k]
        /\ (svc = "cache" /\ last.op = "clearAll" /\ last.hit = {}) =>
                \A k \in DOMAIN ls : ~HasCachePrefix(k)
        /\ (svc = "status" /\ last.op = "statusClearAll" /\ last.hit = {}) =>
                STATUS_STORAGE_KEY \notin DOMAIN ls

\* Witness of C20: the cache panel has just shown two stored entries, one of
\* them the aggregate list (what clearAll is then applied to).
C20_Witness ==
    /\ svc = "cache"
    /\ last.op = "getStats"
    /\ last.ret # Null
    /\ last.ret.val.totalEntries = 2
    /\ PRsKey(ALL, ALL_PRS_KEY) \in Entries(ls)
    /\ Cardinality({k \in DOMAIN ls : HasCachePrefix(k)}) = 2

----------------------------------------------------------------------------
(* Properties of getStats, checked under SpecStores *)

\* Claim C21 (stats agree with the sweep): in every storage state,
\* expiredEntries of getStats is the number of keys clearExpired would
\* remove at the same instant, and totalEntries is the number of keys with
\* a cache prefix.  Violated by a stored '': getStats parses it, fails and
\* counts it expired, while clearExpired parses '{}' in its place and keeps it.
C21_StatsAgreeWithSweep ==
    svc = "cache" =>
        LET stats == getStats(ls, now, {}).ret.val
            swept == clearExpired(ls, now, {}).ls
        IN  /\ stats.expiredEntries = Cardinality(DOMAIN ls \ DOMAIN swept)
            /\ stats.totalEntries = Cardinality({k \in DOMAIN ls : HasCachePrefix(k)})

----------------------------------------------------------------------------
(* Properties of the reads of RepoCacheService, checked under SpecStores *)

\* The read r of the entry under key, older than ttl, returned null and
\* removed that key and no other.
EvictsOnly(key, ttl, r) ==
    (key \in Entries(ls) /\ now - Parse(ls[key]).timestamp > ttl) =>
        /\ r.ret = Null
        /\ r.evicted
        /\ DOMAIN r.ls = DOMAIN ls \ {key}
        /\ \A k \in DOMAIN r.ls : r.ls[k] = ls[k]

\* Claim C22 (expired-on-read eviction): in every storage state, a namespace
\* get that finds an entry older than the TTL of its namespace returns null
\* and deletes that key as part of the read, and changes no other key.
C22_ExpiredEvictedOnRead ==
    /\ svc = "cache" =>
          /\ \A o \in Owners, r \in Repos :
                EvictsOnly(RepoKey(o, r), CACHE_DURATION,
                           getCachedRepository(ls, now, {}, o, r))
          /\ \A id \in PRIdents :
                EvictsOnly(PRsKey(id[1], id[2]),
                           NamespaceTTL("getCachedPullRequests", PRsKey(id[1], id[2])),
                           getCachedPullRequests(ls, now, {}, id[1], id[2]))
          /\ \A o \in Owners, r \in Repos, p \in Paths, sha \in Shas :
                EvictsOnly(FileKey(o, r, p, sha), FILE_CACHE_DURATION,
                           getCachedFileContent(ls, now, {}, o, r, p, sha))
          /\ \A u \in Usernames :
                EvictsOnly(UserReposKey(u), USER_REPOS_CACHE_DURATION,
                           getCachedUserRepos(ls, now, {}, u))
    /\ (svc = "cache" /\ last.op \in GetOps /\ last.evicted) =>
          last.key \notin DOMAIN ls

\* Witness of C22: a read of a pull-request list has just evicted its expired
\* entry, and the entry of another key is still stored.
C22_Witness ==
    /\ svc = "cache"
    /\ last.op = "getCachedPullRequests"
    /\ last.evicted
    /\ last.key \notin DOMAIN ls
    /\ Entries(ls) # {}

----------------------------------------------------------------------------
(* Properties of the staleness windows, checked under SpecFetch *)

\* Claim C23 (staleness window of the aggregate list): in every state where
\* the stored aggregate entry is non-empty and less than 10 minutes old,
\* getAllPullRequestsAwaitingReview serves it without a blocking fetch, and
\* schedules a background refresh only when it is older than 2 minutes.
\* Violated: getCachedPullRequests evicts the entry once it is older than
\* 5 minutes, so between 5 and 10 minutes the call fetches.
C23_AggregateWindow ==
    LET key == PRsKey(ALL, ALL_PRS_KEY) IN
    (/\ svc = "fetch"
     /\ key \in DOMAIN ls
     /\ Len(Parse(ls[key]).data) > 0
     /\ now - Parse(ls[key]).timestamp < tenMinutes) =>
        LET c == getCachedPullRequests(ls, now, {}, ALL, ALL_PRS_KEY) IN
        /\ servedFromCache(c.ret, now)
        /\ c.ret.val.data = Parse(ls[key]).data
        /\ refreshScheduled(c.ret, now) => now - Parse(ls[key]).timestamp > twoMinutes

\* Claim C24 (staleness window of the user-repo list): in every state where
\* the stored user-repo entry is non-empty and less than 15 minutes old,
\* getRepositories serves it without a blocking list fetch, and schedules a
\* background refresh only when it is older than 5 minutes.
\* Violated: getCachedUserRepos returns data and etag without the timestamp,
\* so the age getRepositories computes is Date.now() - 0 and no entry is
\* ever young enough.
C24_UserReposWindow ==
    LET username == reposCacheKey(Login, "1", "10")
        key == UserReposKey(username)
    IN  (/\ svc = "fetch"
         /\ key \in DOMAIN ls
         /\ Len(Parse(ls[key]).data) > 0
         /\ now - Parse(ls[key]).timestamp < fifteenMinutes) =>
            LET c == getCachedUserRepos(ls, now, {}, username) IN
            /\ reposServedFromCache(c.ret, now)
            /\ c.ret.val.data = Parse(ls[key]).data
            /\ reposRefreshScheduled(c.ret, now)
                    => now - Parse(ls[key]).timestamp > fiveMinutes

----------------------------------------------------------------------------
(* Properties of the expiry of the triage store, checked under SpecStores *)

\* The persisted triage blob, empty when there is none to parse.
StatusBlob(store) ==
    IF STATUS_STORAGE_KEY \in DOMAIN store /\ ~ParseThrows(store[STATUS_STORAGE_KEY])
        THEN Parse(store[STATUS_STORAGE_KEY]) ELSE <<>>

\* The records of a blob younger than 7 days at time t.
Unexpired(blob, t) == {id \in DOMAIN blob : t - blob[id].timestamp < STATUS_CACHE_DURATION}

\* The blob after holds the unexpired records of the blob before, unchanged,
\* except for the record of the PR named, if any.
KeepsUnexpired(before, after, named) ==
    /\ DOMAIN after = Unexpired(before, now) \cup named
    /\ \A id \in DOMAIN after \ named : after[id] = before[id]

\* Claim C25 (7-day expiry of the triage store): in every state, no read
\* accessor returns a record that is 7 days old or older; the blob an
\* update or cleanup has written holds no such record, and holds every
\* unexpired record of the other PRs unchanged.
C25_SevenDayExpiry ==
    /\ svc = "status" =>
          LET blob == StatusBlob(ls)
              live == {NumberOf(id) : id \in Unexpired(blob, now)}
          IN  /\ DOMAIN getAllStatuses(ls, now, {}).map = live
              /\ \A id \in PrIds :
                    getStatus(ls, now, {}, id).ret
                        = IF id \in live THEN Some(blob[ToString(id)]) ELSE Null
              /\ getSpicyPRs(ls, now, {}).ret.val \subseteq live
              /\ getDelayedPRs(ls, now, {}).ret.val \subseteq live
              /\ getCompletedPRs(ls, now, {}).ret.val \subseteq live
              /\ KeepsUnexpired(blob, StatusBlob(statusCleanup(ls, now, {}).ls), {})
              /\ \A id \in PrIds, flag \in FlagNames, b \in BOOLEAN :
                    KeepsUnexpired(blob, StatusBlob(SetFlag(ls, now, {}, id, flag, b).ls),
                                   {ToString(id)})
    /\ (/\ svc = "status"
        /\ last.op \in {"setSpicy", "setDelayed", "setCompleted", "cleanup"}
        /\ last.hit = {}) =>
          /\ STATUS_STORAGE_KEY \in DOMAIN ls
          /\ Unexpired(StatusBlob(ls), now) = DOMAIN StatusBlob(ls)

\* Witness of C25: getStatus(41) has just returned null while the blob holds
\* the record of 41, exactly 7 days old, next to a record of 42.
C25_Witness ==
    /\ svc = "status"
    /\ last.op = "getStatus" /\ last.key = <<"41">> /\ last.hit = {}
    /\ last.ret = Null
    /\ DOMAIN StatusBlob(ls) = {"41", "42"}
    /\ now - StatusBlob(ls)["41"].timestamp = STATUS_CACHE_DURATION

----------------------------------------------------------------------------
(* Properties of the triage store in two tabs, checked under SpecTabs *)

\* Claim C26 (cross-tab clobbering): an update is read-entire-blob, mutate,
\* write-entire-blob without a lock: in every state an update has just
\* produced, the blob holds the records the tab had read and the record it
\* updated, and nothing another tab wrote in between.  So an update of
\* another tab can be lost: C26_Witness is reachable.
C26_WholeBlobWritten ==
    (svc = "tabs" /\ last.op = "updateStatus") =>
        /\ DOMAIN StatusBlob(ls)
              = {ToString(n) : n \in last.arg.read} \cup {last.key[1]}
        /\ DOMAIN StatusBlob(ls) \subseteq {ToString(n) : n \in last.arg.returned}

\* Witness of C26: the updates of 41 and of 42 have both returned, no update
\* is in flight, and the blob holds the record of one of them only.
C26_Witness ==
    /\ svc = "tabs"
    /\ last.op = "updateStatus"
    /\ last.arg.returned = {41, 42}
    /\ \A tab \in StatusTabs : tasks[tab] = Idle
    /\ Cardinality(DOMAIN StatusBlob(ls)) = 1

----------------------------------------------------------------------------
(* Properties of the dashboard, checked under SpecDashboard *)

\* Claim C27 (mutual exclusivity by the UI layer): in a single tab, after
\* any sequence of dashboard handlers and timer callbacks, the stored record
\* of every PR has at most one of spicy, delayed and completed true; it
\* holds after every handler, and so when no callback is pending.
C27_AtMostOneFlag ==
    svc = "dashboard" =>
        \A id \in DOMAIN StatusBlob(ls) :
            Cardinality({f \in FlagNames : StatusBlob(ls)[id][f]}) <= 1

\* Witness of C27: the callback of "complete" for 41 has just run after
\* "spice it up" for 41 (its animation is still on): the record of 41 is
\* completed and no longer spicy, and no callback but the animation's is
\* pending.
C27_Witness ==
    /\ svc = "dashboard"
    /\ last.op = "completeReviewTimer" /\ last.key = <<"41">>
    /\ ui.spiceAnimation = Some(41)
    /\ Flags(StatusBlob(ls)["41"]) = <<FALSE, FALSE, TRUE>>
    /\ Len(tasks) = 1

----------------------------------------------------------------------------
(* Properties of the ttl of the AI cache, checked under SpecStores *)

\* The ttl values passed to set: none, 0 and two positive ones.
TtlValues == {NoTtl, 0, 1, 60}

\* Claim C28 (the TTL of the AI cache is configurable per write): in every
\* state, set with a ttl >= 0 stores an entry that expires at write time +
\* ttl (get returns it until then and null afterwards), and the 24-hour
\* default applies only when no ttl is passed.  Violated by ttl = 0:
\* `ttl || this.defaultTTL` takes 0 for a missing ttl, and the entry lives
\* 24 hours.
C28_TtlPerWrite ==
    svc = "ai" =>
        \A tab \in Tabs, id \in AIPrIds, sha \in AIShas, ttl \in TtlValues :
            LET lifetime == IF ttl = NoTtl THEN defaultTTL ELSE ttl
                S == aiSet(aiCache[tab], ls, now, {}, MaxAIEntries, id, "A1", sha, ttl)
            IN  /\ S.cache[generateKey(id, sha)].expiresAt = now + lifetime
                /\ aiGet(S.cache, S.ls, now + lifetime, {}, MaxAIEntries, id, sha).ret
                        = Some("A1")
                /\ aiGet(S.cache, S.ls, now + lifetime + 1, {}, MaxAIEntries, id, sha).ret
                        = Null
----------------------------------------------------------------------------
(* The background refresh, checked under SpecRefresh *)

\* A call made by fetchAndUpdatePRsInBackground is in flight.
RefreshInFlight == \E i \in DOMAIN tasks : tasks[i].bg

\* Every scheduled background refresh ends: fetchFreshPRsAwaitingReview
\* returns or its error is caught, and the task is gone.
RefreshTerminates == RefreshInFlight ~> (last.op = "backgroundDone" /\ tasks = <<>>)

\* The aggregate entry holds the list the refresh returned, stamped with the
\* time of the write, and a read made now returns that list.
RefreshStored ==
    LET key == PRsKey(ALL, ALL_PRS_KEY)
        c == getCachedPullRequests(ls, now, {}, ALL, ALL_PRS_KEY)
    IN  /\ key \in DOMAIN ls
        /\ ~ParseThrows(ls[key])
        /\ Parse(ls[key]).data = last.ret.val
        /\ Parse(ls[key]).timestamp = now
        /\ c.ret # Null
        /\ c.ret.val.data = last.ret.val

\* Claim C29 (a background refresh runs to completion): every scheduled
\* background refresh eventually ends, in success or in a caught failure, and
\* when it has ended in success the aggregate entry holds the fresh list with
\* a new timestamp and a read returns it.  Violated: every refresh ends, but
\* when setItem throws within cachePullRequests the refresh ends in success
\* with the old entry, or none, in storage.
C29_RefreshCompletes ==
    /\ RefreshTerminates
    /\ []((last.op = "backgroundDone" /\ ~last.arg.rejected) => RefreshStored)

----------------------------------------------------------------------------
(* The periodic sweep, checked under SpecSweep *)

\* key holds an entry older than the TTL of its namespace.
ExpiredEntry(key) ==
    /\ key \in Entries(ls)
    /\ now - Parse(ls[key]).timestamp > KeyTTL(key)

\* The app stays open until the interval has elapsed once more.
TimerWillFire == now + SWEEP_INTERVAL <= MaxNowSweep

\* Claim C30 (the periodic sweep): while the app stays open, an entry of a
\* cache namespace that has outlived the TTL of its namespace does not stay:
\* it is removed (or rewritten) without any read, and right after the timer
\* has fired no such entry is in storage.
C30_SweepLiveness ==
    /\ \A key \in CacheKeys :
           (ExpiredEntry(key) /\ TimerWillFire) ~> ~ExpiredEntry(key)
    /\ [](last.op = "sweepTimer" => \A key \in CacheKeys : ~ExpiredEntry(key))

\* The timer, firing for the third time with no storage call throwing, has
\* just removed the file entry written at 3, which nobody read, and has
\* kept the user-repos entry written at 5, which is 10 minutes old.
C30_Witness ==
    /\ svc = "cache"
    /\ last.op = "sweepTimer"
    /\ last.hit = {}
    /\ now = 15
    /\ last.arg.removed = {FileKey(<<"o">>, <<"r">>, <<"p">>, <<"HEAD">>)}
    /\ DOMAIN ls = {UserReposKey(<<"u">>)}
    /\ Parse(ls[UserReposKey(<<"u">>)]).timestamp = 5

----------------------------------------------------------------------------
(* The blocking fetch of the aggregate list, checked under SpecFetch *)

\* getAllPullRequestsAwaitingReview, called now, returns the cached list and
\* starts no call of fetchFreshPRsAwaitingReview.
ServedWithoutFetch ==
    servedFromCache(getCachedPullRequests(ls, now, {}, ALL, ALL_PRS_KEY).ret, now)

\* Claim C31 (a successful blocking fetch populates the cache): when a
\* blocking fetch has returned a list, the empty list included, a read of
\* the aggregate list made right away is served from the cache with no remote
\* call.  Violated: a fetched empty list is cached and then not served
\* (cached.data.length > 0), the next read fetches again.
C31_BlockingFetchPopulates ==
    (last.op = "blockingDone" /\ ~last.arg.rejected) => ServedWithoutFetch

----------------------------------------------------------------------------
(* getFileContent, checked under SpecFile *)

\* Claim C32 (file-content cache hit): a call of getFileContent for a file
\* whose content, the empty string included, was cached less than 10 minutes
\* ago returns the cached content with no remote call.  Violated: an entry
\* holding '' is read as a miss (if (cached)), repos.getContent is called.
C32_FileContentHit ==
    svc = "file" =>
        \A o \in Owners, r \in Repos, p \in Paths, ref \in Refs :
            LET key == FileKey(o, r, p, shaOf(ref))
                c == getCachedFileContent(ls, now, {}, o, r, p, shaOf(ref))
            IN  (/\ key \in Entries(ls)
                 /\ now - Parse(ls[key]).timestamp < FILE_CACHE_DURATION) =>
                    /\ fileServed(c.ret)
                    /\ c.ret = Some(Parse(ls[key]).content)

----------------------------------------------------------------------------
(* AICacheService in two tabs, checked under SpecAITabs *)

\* Claim C33 (the AI cache across tabs): when a set, a remove or a get that
\* found its entry expired has saved the copy of its tab, every unexpired
\* entry that another tab had written to storage under a different key after
\* this tab loaded its copy is still in storage.  Violated: the save writes
\* the whole copy of the tab, which does not hold the entry of the other tab.
C33_OtherTabsEntriesKept ==
    (/\ svc = "aitabs"
     /\ last.op \in {"aiSet", "aiRemove", "aiGet"}
     /\ last.writes > 0) =>
        \A k \in last.arg.foreign \ {last.key} : k \in DOMAIN AIBlob(ls)

----------------------------------------------------------------------------
(* The recursion of saveToStorage and cleanExpired, checked under SpecStores *)

\* saveToStorage on the copy of the tab while every setItem throws.
SaveWhileFull(tab) ==
    saveToStorage(AIState(aiCache[tab], ls), now, {"setItem"}, MaxQuota)

\* Claim C34 (saveToStorage terminates): in every state, saveToStorage run
\* while every storage write fails returns (every error is caught): without
\* expired entries after two setItem attempts, with expired entries after
\* four, the nested saveToStorage that cleanExpired calls finding no expired
\* entry any more.  It leaves storage as it was and the copy without its
\* expired entries.  No method of the service has made more than four
\* attempts.
C34_SaveTerminates ==
    svc = "ai" =>
        /\ last.writes <= 4
        /\ \A tab \in Tabs :
               LET live == aiUnexpired(aiCache[tab], now)
                   S == SaveWhileFull(tab)
               IN  /\ S.writes = IF live = DOMAIN aiCache[tab] THEN 2 ELSE 4
                   /\ S.ls = ls
                   /\ S.cache = [k \in live |-> aiCache[tab][k]]
                   /\ cleanExpired(S, now, {"setItem"}, MaxQuota) = S

\* A set has run while every setItem threw and the copy held an expired
\* entry: four attempts, nothing stored, the expired entry gone.
C34_Witness ==
    /\ svc = "ai"
    /\ last.op = "aiSet"
    /\ last.hit = {"setItem"}
    /\ last.writes = 4
    /\ DOMAIN aiCache[1] = {last.key}

====
